---- MODULE Spec2Model ----
(***************************************************************************)
(* A model of numaplane's PipelineRollout reconciler                       *)
(* (internal/controller/pipelinerollout_controller.go).                    *)
(*                                                                         *)
(* One PipelineRollout and the Pipeline child of its promoted name live in *)
(* a resource store.  A worker pops the rollout's key from the work queue  *)
(* and runs processPipelineRollout; the user, foreign actors, the numaflow *)
(* controller and the other rollout reconcilers change the store around    *)
(* it.  The pure helpers of the reconciler (merge, childNeedsUpdating) are *)
(* also exercised on their own by the specifications SpecMerge, SpecDiff.  *)
(***************************************************************************)
EXTENDS Integers, Sequences, FiniteSets, TLC

(***************************************************************************)
(* Bounds of the model.                                                    *)
(***************************************************************************)
\* the changes made from outside (by the user, by a foreign actor, by a
\* restart or a new configuration) in one behaviour
MaxExternal == 2
\* the reconciliations of one behaviour in which a call fails
MaxFaulty == 1

(***************************************************************************)
(* Values.                                                                 *)
(***************************************************************************)
Nil == "nil"

\* apiv1.UpgradeStrategy; NoOp is the zero value of the status field
UpgradeStrategyNoOp == ""
UpgradeStrategyApply == "Apply"
UpgradeStrategyPPND == "PPND"
UpgradeStrategyProgressive == "Progressive"
InProgressStrategies ==
  {UpgradeStrategyNoOp, UpgradeStrategyPPND, UpgradeStrategyProgressive}

\* config: the operator-configured default strategy (usde.GetUserStrategy)
PPNDStrategyID == "pause-and-drain"
ProgressiveStrategyID == "progressive"
NoStrategyID == ""
\* apiv1.Phase of the rollout status; "" before the first status write
PhasePending == "Pending"
PhaseDeployed == "Deployed"
PhaseFailed == "Failed"

\* numaflowv1.PipelinePhase values the numaflow controller reports
PipelinePhaseRunning == "Running"
PipelinePhasePausing == "Pausing"
PipelinePhasePaused == "Paused"
PipelinePhaseFailed == "Failed"
PipelinePhaseDeleting == "Deleting"
PipelinePhaseUnknown == ""

\* UIDs: the rollout's own and a foreign owner's
RolloutUID == "rollout-uid"
ForeignUID == "other-uid"

\* the pipeline spec as the reconciler sees it: a field whose change the
\* decision engine classifies as disruptive (interStepBufferServiceName),
\* one it classifies as apply-in-place, and lifecycle.desiredPhase
NoDesiredPhase == "absent"
PipelineSpec(isb, scale, desiredPhase) ==
  [isb |-> isb, scale |-> scale, desiredPhase |-> desiredPhase]
\* the specs a user declares: a first one, one that differs from it in the
\* buffering service (a disruptive field), one that differs in another field
DeclaredSpecs ==
  { PipelineSpec("", "1", NoDesiredPhase),
    PipelineSpec("my-isbsvc", "1", NoDesiredPhase),
    PipelineSpec("", "2", NoDesiredPhase) }
\* the specs a direct edit gives the child: another buffering service (the
\* e2e test's edit), or a request to pause
EditedSpecs(sp) ==
  { [sp EXCEPT !.isb = IF sp.isb = "" THEN "my-isbsvc" ELSE ""],
    [sp EXCEPT !.desiredPhase = PipelinePhasePaused] }

\* metav1.OwnerReference, as far as checkOwnerRef and the owner watch read it
OwnerRef(kind, uid) == [kind |-> kind, uid |-> uid]
RolloutOwnerRef == OwnerRef("PipelineRollout", RolloutUID)
ForeignOwnerRefs ==
  { <<>>,
    <<OwnerRef("PipelineRollout", ForeignUID)>>,
    <<OwnerRef("Deployment", RolloutUID)>>,
    <<OwnerRef("Deployment", ForeignUID), OwnerRef("PipelineRollout", ForeignUID)>> }

(***************************************************************************)
(* Objects of the store.                                                   *)
(***************************************************************************)
\* Go map[string]string: the nil map, or a function from its keys
NilMap == [isNil |-> TRUE, kv |-> <<>>]
GoMap(f) == [isNil |-> FALSE, kv |-> f]
MapKeys(m) == IF m.isNil THEN {} ELSE DOMAIN m.kv

\* kubernetes.GenericStatus / numaflowv1.PipelineStatus of a child
EmptyChildStatus ==
  [phase |-> PipelinePhaseUnknown, drainedOnPause |-> FALSE,
   observedGeneration |-> 0, conditions |-> <<>>]

\* the child that does not exist (GetResource answers NotFound)
NoPipeline ==
  [exists |-> FALSE, ownerReferences |-> <<>>, labels |-> NilMap, annotations |-> NilMap,
   generation |-> 0,
   spec |-> [isb |-> "", scale |-> "1", desiredPhase |-> NoDesiredPhase],
   status |-> EmptyChildStatus]

\* apiv1.Status of a rollout that no reconciliation has written yet
EmptyCondition == [status |-> "", reason |-> ""]
EmptyRolloutStatus ==
  [phase |-> "", observedGeneration |-> 0, upgradeInProgress |-> UpgradeStrategyNoOp,
   childResourcesHealthy |-> EmptyCondition,
   pipelinePausingOrPaused |-> EmptyCondition]

\* the rollout that is gone from the store
NoRollout ==
  [exists |-> FALSE, generation |-> 0,
   spec |-> [isb |-> "", scale |-> "1", desiredPhase |-> NoDesiredPhase],
   finalizer |-> FALSE, deletionTimestamp |-> FALSE, status |-> EmptyRolloutStatus]

(***************************************************************************)
(* Pure helpers of the reconciler.                                         *)
(***************************************************************************)
RECURSIVE checkOwnerRefFrom(_, _, _)
checkOwnerRefFrom(ownerRefs, uid, i) ==
  IF i > Len(ownerRefs) THEN FALSE
  ELSE IF ownerRefs[i].kind = "PipelineRollout" /\ ownerRefs[i].uid = uid THEN TRUE
  ELSE checkOwnerRefFrom(ownerRefs, uid, i + 1)

\* a plausible slip: the owner's Kind is not compared
checkOwnerRefAnyKind(ownerRefs, uid) ==
  \E i \in 1..Len(ownerRefs) : ownerRefs[i].uid = uid

\* determine if this Pipeline is owned by this PipelineRollout
checkOwnerRef(ownerRefs, uid) ==
  IF Len(ownerRefs) = 0 THEN FALSE ELSE checkOwnerRefFrom(ownerRefs, uid, 1)

\* a plausible slip: a key already there keeps its value
mergeMapKeepExisting(dst, src) ==
  GoMap([k \in MapKeys(dst) \cup MapKeys(src) |->
           IF k \in MapKeys(dst) THEN dst.kv[k] ELSE src.kv[k]])
\* for key, value := range src { dst[key] = value }, dst made {} when nil
mergeMap(dst, src) ==
  GoMap([k \in MapKeys(dst) \cup MapKeys(src) |->
           IF k \in MapKeys(src) THEN src.kv[k] ELSE dst.kv[k]])

\* take the existing pipeline and merge anything needed from the new definition
merge(existingPipeline, newPipeline) ==
  [existingPipeline EXCEPT
     !.spec = newPipeline.spec,
     !.labels = mergeMap(existingPipeline.labels, newPipeline.labels),
     !.annotations = mergeMap(existingPipeline.annotations, newPipeline.annotations)]

\* a nil object (one with exists = FALSE) parses to the zero status
parsePipelineStatus(obj) ==
  IF ~obj.exists THEN EmptyChildStatus ELSE obj.status

\* a plausible slip: the drained-on-pause flag is not read
childIsDrainedPhaseOnly(pipelineDef) ==
  parsePipelineStatus(pipelineDef).phase = PipelinePhasePaused

childIsDrained(pipelineDef) ==
  /\ parsePipelineStatus(pipelineDef).phase = PipelinePhasePaused
  /\ parsePipelineStatus(pipelineDef).drainedOnPause

\* a plausible slip: only the very generation counts as observed
pipelineObservedGenerationCurrentExact(generation, observedGeneration) == generation = observedGeneration
pipelineObservedGenerationCurrent(generation, observedGeneration) ==
  generation <= observedGeneration

\* the first VerticesHealthy / SideInputsManagersHealthy / DaemonServiceHealthy
\* condition that is not True decides; otherwise True
RECURSIVE getPipelineChildResourceHealthFrom(_, _)
getPipelineChildResourceHealthFrom(conditions, i) ==
  IF i > Len(conditions) THEN [status |-> "True", reason |-> ""]
  ELSE IF /\ conditions[i].type \in
               {"VerticesHealthy", "SideInputsManagersHealthy", "DaemonServiceHealthy"}
          /\ conditions[i].status # "True"
       THEN [status |-> conditions[i].status, reason |-> conditions[i].reason]
       ELSE getPipelineChildResourceHealthFrom(conditions, i + 1)

\* a plausible slip: the condition's type is not looked at
getPipelineChildResourceHealthAnyType(conditions) ==
  IF \E i \in 1..Len(conditions) : conditions[i].status # "True"
  THEN LET i == CHOOSE k \in 1..Len(conditions) :
                  /\ conditions[k].status # "True"
                  /\ \A j \in 1..(k - 1) : conditions[j].status = "True"
       IN  [status |-> conditions[i].status, reason |-> conditions[i].reason]
  ELSE [status |-> "True", reason |-> ""]
getPipelineChildResourceHealth(conditions) ==
  getPipelineChildResourceHealthFrom(conditions, 1)

\* apiv1.Status: the ChildResourcesHealthy condition the Mark... calls leave
MarkChildResourcesUnhealthy(reason) == [status |-> "False", reason |-> reason]
MarkChildResourcesHealthUnknown(reason) == [status |-> "Unknown", reason |-> reason]
MarkChildResourcesHealthy == [status |-> "True", reason |-> "Successful"]

\* a plausible slip: only the phase Paused is looked at
pausedOnly(pipelinePhase) == pipelinePhase = PipelinePhasePaused
\* pipelinePhase == PipelinePhasePaused || pipelinePhase == PipelinePhasePausing
pausedOrPausing(pipelinePhase) == pipelinePhase \in {PipelinePhasePaused, PipelinePhasePausing}

\* a plausible slip: the status of the child resources is not looked at
phaseUnknown(pipelinePhase, pipelineChildResourceStatus) == pipelinePhase = PipelinePhaseUnknown
\* pipelinePhase == PipelinePhaseUnknown || pipelineChildResourceStatus == "Unknown"
phaseOrChildResourceUnknown(pipelinePhase, pipelineChildResourceStatus) == pipelinePhase = PipelinePhaseUnknown \/ pipelineChildResourceStatus = "Unknown"

\* Set the Condition in the Status for child resource health
setChildResourcesHealthCondition(pipeline_, pipelineStatus) ==
  LET pipelinePhase == pipelineStatus.phase
      h == getPipelineChildResourceHealth(pipelineStatus.conditions)
  IN  IF \/ h.reason = "Progressing"
         \/ ~pipelineObservedGenerationCurrent(pipeline_.generation,
                                               pipelineStatus.observedGeneration)
      THEN MarkChildResourcesUnhealthy("Progressing")
      ELSE IF pipelinePhase = PipelinePhaseFailed
      THEN MarkChildResourcesUnhealthy("PipelineFailed")
      ELSE IF h.status = "False"
      THEN MarkChildResourcesUnhealthy("PipelineFailed")
      ELSE IF pausedOrPausing(pipelinePhase)
      THEN MarkChildResourcesHealthUnknown("PipelineUnknown")
      ELSE IF pipelinePhase = PipelinePhaseDeleting
      THEN MarkChildResourcesUnhealthy("PipelineDeleting")
      ELSE IF phaseOrChildResourceUnknown(pipelinePhase, h.status)
      THEN MarkChildResourcesHealthUnknown("PipelineUnknown")
      ELSE MarkChildResourcesHealthy

\* Set the Condition in the Status for the pipeline's pause; the pause
\* times it also keeps are left out with the clock
setChildResourcesPauseCondition(pipelineStatus) ==
  IF pipelineStatus.phase \in {PipelinePhasePaused, PipelinePhasePausing}
  THEN [status |-> "True", reason |-> "Pipeline" \o pipelineStatus.phase]
  ELSE [status |-> "False", reason |-> "Unpaused"]

(***************************************************************************)
(* State.                                                                  *)
(***************************************************************************)
VARIABLES
  rollout,          \* the PipelineRollout in the store
  pipeline,         \* the Pipeline of the promoted name in the store
  strategyStore,    \* inProgressStrategyMgr.store: the in-memory strategy
  pauseRequest,     \* the pause registry's entry for the pipeline's dependency
  usdeConfig,       \* the decision engine's configuration
  progressiveReady, \* the progressive candidate is ready to be promoted
  queued,           \* the rollout's key is in the work queue
  delayed,          \* a rate-limited or delayed re-add of the key is pending
  last,             \* what the last processPipelineRollout did and returned
  external,         \* the changes made from outside so far
  faulty,           \* the reconciliations in which a call failed so far
  quiet,            \* no user, foreign actor or fault acts any more
  metrics,          \* the custom metrics: the running-rollouts entry, the health gauge
  crashed,          \* the process has ended in a panic
  mergeCase,        \* SpecMerge: the call of merge under test
  diffCase,         \* SpecDiff: the call of childNeedsUpdating under test
  pool,             \* SpecQueue: the work queue, its workers and the shutdown
  isbCase,          \* SpecISB: the buffering-service reconcile under test
  healthCase,       \* SpecHealth: the health projection under test
  pauseCase,        \* SpecPause: the pause times under test
  countCase         \* SpecCount: incrementChildCount under test

mainVars ==
  <<rollout, pipeline, strategyStore, pauseRequest, usdeConfig, progressiveReady,
    queued, delayed, last, external, faulty, quiet, metrics, crashed>>
vars == <<mainVars, mergeCase, diffCase, pool, isbCase, healthCase, pauseCase, countCase>>

NotInMemory == "<not found>"

(***************************************************************************)
(* The decision engine (usde), the pause registry and the strategy manager *)
(***************************************************************************)
\* usde.GetUserStrategy
GetUserStrategy == usdeConfig.defaultUpgradeStrategy

\* usde.ResourceNeedsUpdating: a difference in a disruptive field is given
\* the configured type, a difference in another field Apply, none NoOp;
\* lifecycle.desiredPhase is not compared
ResourceNeedsUpdating(newDef, existingDef) ==
  IF newDef.spec.isb # existingDef.spec.isb
  THEN [needs |-> TRUE, type |-> usdeConfig.disruptiveType]
  ELSE IF newDef.spec.scale # existingDef.spec.scale
  THEN [needs |-> TRUE, type |-> UpgradeStrategyApply]
  ELSE [needs |-> FALSE, type |-> UpgradeStrategyNoOp]

\* the PPND-readiness check: no answer while the registry entry is unknown
needPPND(pipelineUpdateRequiringPPND) ==
  IF pauseRequest = "unknown"
  THEN [known |-> FALSE, value |-> FALSE]
  ELSE [known |-> TRUE, value |-> pipelineUpdateRequiringPPND]

\* a plausible slip: the stored status is never consulted
getRolloutStrategyNotStored(status) == Nil
\* getRolloutStrategy function of NewPipelineRolloutReconciler
getRolloutStrategy(status) ==
  IF status.upgradeInProgress # "" THEN status.upgradeInProgress ELSE Nil

\* inProgressStrategyMgr.getStrategy: the in-memory value if there is one
\* (the status is set to it), else the status value (stored in memory)
getStrategy(c) ==
  IF c.mem # NotInMemory THEN c.mem
  ELSE IF getRolloutStrategy(c.ro.status) # Nil THEN c.ro.status.upgradeInProgress
  ELSE UpgradeStrategyNoOp

synchronize(c) ==
  IF c.mem # NotInMemory THEN [c EXCEPT !.ro.status.upgradeInProgress = c.mem]
  ELSE IF getRolloutStrategy(c.ro.status) # Nil
  THEN [c EXCEPT !.mem = c.ro.status.upgradeInProgress]
  ELSE c

Ev(c, e) == [c EXCEPT !.tr = Append(@, e)]
\* an error is being returned; msg is its message (the first one stays)
Fail(c) == [c EXCEPT !.err = TRUE, !.msg = IF @ = "" THEN "error" ELSE @]
FailWith(c, msg) == [c EXCEPT !.err = TRUE, !.msg = msg]
Issued(tr, calls) == \E i \in 1..Len(tr) : tr[i] \in calls

\* inProgressStrategyMgr.setStrategy / unsetStrategy
setStrategy(c, strategy) ==
  Ev([c EXCEPT !.ro.status.upgradeInProgress = strategy, !.mem = strategy,
               !.set = strategy],
     "SetStrategy")
unsetStrategy(c) ==
  Ev([c EXCEPT !.ro.status.upgradeInProgress = UpgradeStrategyNoOp,
               !.mem = UpgradeStrategyNoOp],
     "UnsetStrategy")

\* apiv1.Status.MarkPending / MarkDeployed / MarkFailed
MarkPending(c) == Ev([c EXCEPT !.ro.status.phase = PhasePending], "MarkPending")
MarkDeployed(c) ==
  Ev([c EXCEPT !.ro.status.phase = PhaseDeployed,
               !.ro.status.observedGeneration = rollout.generation],
     "MarkDeployed")
MarkFailed(c) ==
  Ev([c EXCEPT !.ro.status.phase = PhaseFailed, !.marked = c.msg], "MarkFailed")

(***************************************************************************)
(* The child definition and the store calls.                               *)
(***************************************************************************)
\* PipelineSpec.getISBSvcName: the default service when none is named
getISBSvcName(spec) == IF spec.isb = "" THEN "default" ELSE spec.isb

getBasePipelineMetadata(ro) ==
  [labels |-> GoMap(("numaplane.numaproj.io/isbsvc-name" :> getISBSvcName(ro.spec)) @@
                    ("numaplane.numaproj.io/parent-rollout-name" :> "rollout")),
   annotations |-> NilMap]

\* a plausible slip: the owner reference is left out of the definition
makePipelineDefinitionNoOwner(ro, metadata) ==
  [exists |-> TRUE,
   ownerReferences |-> <<>>,
   labels |-> metadata.labels,
   annotations |-> metadata.annotations,
   generation |-> 0,
   spec |-> ro.spec,
   status |-> EmptyChildStatus]
\* makePipelineDefinition: the rollout's spec, passed through, under the
\* controller owner reference
makePipelineDefinition(ro, metadata) ==
  [exists |-> TRUE,
   ownerReferences |-> <<RolloutOwnerRef>>,
   labels |-> metadata.labels,
   annotations |-> metadata.annotations,
   generation |-> 0,
   spec |-> ro.spec,
   status |-> EmptyChildStatus]

makeRunningPipelineDefinition(ro) ==
  LET metadata == getBasePipelineMetadata(ro)
  IN  makePipelineDefinition(ro,
        [metadata EXCEPT !.labels = GoMap(("numaplane.numaproj.io/upgrade-state" :> "promoted")
                                          @@ metadata.labels.kv)])

\* kubernetes.CreateResource: the store gives the object its first generation
CreateResource(c, obj) ==
  [c EXCEPT !.pl = [obj EXCEPT !.generation = 1]]

\* kubernetes.UpdateResource: metadata and spec are replaced, the status
\* subresource is kept, the generation grows when the spec changes
UpdateResource(c, obj) ==
  [c EXCEPT !.pl = [obj EXCEPT
     !.status = c.pl.status,
     !.generation = IF obj.spec # c.pl.spec THEN c.pl.generation + 1
                    ELSE c.pl.generation]]

\* kubernetes.PatchResource with the merge patch of drain
PatchResource(c) ==
  [c EXCEPT !.pl.spec.desiredPhase = PipelinePhasePaused,
            !.pl.generation = IF c.pl.spec.desiredPhase # PipelinePhasePaused
                              THEN @ + 1 ELSE @]

updatePipelineSpec(c, obj, F) ==
  IF "UpdateChild" \in F THEN Fail(Ev(c, "UpdateChild"))
  ELSE UpdateResource(Ev(c, "UpdateChild"), obj)

drain(c, F) ==
  IF "PatchChild" \in F THEN Fail(Ev(c, "PatchChild"))
  ELSE PatchResource(Ev(c, "PatchChild"))

inProgressStrategySet(inProgressStrategy) ==
  inProgressStrategy # UpgradeStrategyNoOp

\* the PPND steps for a pipeline: pause first while the live difference
\* still asks for it, apply once paused and drained, apply at once when the
\* difference no longer asks for a pause
processExistingPipelineWithPPND(c, existingPipelineDef, newPipelineDef, F) ==
  IF "ResourceNeedsUpdating" \in F THEN [c |-> Fail(c), done |-> FALSE]
  ELSE
  LET d == ResourceNeedsUpdating(newPipelineDef, existingPipelineDef)
  IN  IF d.needs /\ d.type = UpgradeStrategyPPND
      THEN IF childIsDrained(existingPipelineDef)
           THEN LET c1 == updatePipelineSpec(c, newPipelineDef, F)
                IN  IF c1.err THEN [c |-> c1, done |-> FALSE]
                    ELSE [c |-> MarkDeployed(c1), done |-> TRUE]
           ELSE IF existingPipelineDef.spec.desiredPhase # PipelinePhasePaused
           THEN [c |-> drain(c, F), done |-> FALSE]
           ELSE [c |-> c, done |-> FALSE]
      ELSE IF d.needs \/ existingPipelineDef.spec.desiredPhase = PipelinePhasePaused
      THEN LET c1 == updatePipelineSpec(c, newPipelineDef, F)
           IN  IF c1.err THEN [c |-> c1, done |-> FALSE]
               ELSE [c |-> MarkDeployed(c1), done |-> TRUE]
      ELSE [c |-> c, done |-> TRUE]

\* the progressive hook: the candidate is promoted once it is ready
processResourceWithProgressive(c, newPipelineDef, F) ==
  IF "Progressive" \in F THEN [c |-> Fail(Ev(c, "Progressive")), done |-> FALSE]
  ELSE IF ~c.prog THEN [c |-> Ev(c, "Progressive"), done |-> FALSE]
  ELSE [c |-> MarkDeployed(UpdateResource(Ev([c EXCEPT !.prog = FALSE], "Promote"),
                                          newPipelineDef)),
        done |-> TRUE]

garbageCollectChildren(c, F) ==
  IF "GarbageCollect" \in F THEN Fail(c) ELSE c

(***************************************************************************)
(* The reconciliation.  c is the state the handler works on: ro the        *)
(* in-memory copy of the rollout, pl the child in the store, mem the       *)
(* in-memory strategy, prog the progressive candidate's readiness,         *)
(* existing the child object reconcile returns, tr the calls made so far,  *)
(* read the strategy getStrategy returned, err whether an error is being   *)
(* returned.  F is the set of calls that fail in this reconciliation.      *)
(***************************************************************************)
NotRead == "<not read>"

\* a plausible slip: no answer is taken as the answer no
notEnoughInformationIgnored(ppndRequired) == FALSE
\* ppndRequired == nil
notEnoughInformation(ppndRequired) == ~ppndRequired.known

\* a plausible slip: any needed update starts Progressive
progressiveRecommendedAnyUpdate(d) == d.needs
\* upgradeStrategyType == apiv1.UpgradeStrategyProgressive
progressiveRecommended(d) == d.type = UpgradeStrategyProgressive

\* a plausible slip: any needed update asks for PPND
pipelineUpdateRequiringPPNDAnyUpdate(d) == d.needs
\* the argument processExistingPipeline gives needPPND
pipelineUpdateRequiringPPND(d) == d.type = UpgradeStrategyPPND

\* a plausible slip: once PPND is set the reconciliation ends, and the PPND
\* step waits for the next one
decideStrategyThenReturn(c, d, F) ==
  LET c0 == Ev(c, "Decide")
      ppndRequired == needPPND(d.type = UpgradeStrategyPPND)
  IN  IF GetUserStrategy = PPNDStrategyID
      THEN IF "needPPND" \in F
           THEN [c |-> Fail(c0), strategy |-> UpgradeStrategyNoOp, return |-> TRUE]
           ELSE IF ppndRequired.known /\ ppndRequired.value
           THEN [c |-> setStrategy(c0, UpgradeStrategyPPND),
                 strategy |-> UpgradeStrategyPPND, return |-> TRUE]
           ELSE [c |-> c0, strategy |-> UpgradeStrategyNoOp,
                 return |-> ~ppndRequired.known]
      ELSE IF /\ GetUserStrategy = ProgressiveStrategyID
              /\ d.type = UpgradeStrategyProgressive
      THEN [c |-> setStrategy(c0, UpgradeStrategyProgressive),
            strategy |-> UpgradeStrategyProgressive, return |-> FALSE]
      ELSE [c |-> c0, strategy |-> UpgradeStrategyNoOp, return |-> FALSE]
\* the decision of processExistingPipeline, made when no strategy is in progress
decideStrategy(c, d, F) ==
  LET c0 == Ev(c, "Decide")
      ppndRequired == needPPND(pipelineUpdateRequiringPPND(d))
      p == IF GetUserStrategy # PPNDStrategyID
           THEN [c |-> c0, strategy |-> UpgradeStrategyNoOp, return |-> FALSE]
           ELSE IF "needPPND" \in F
           THEN [c |-> Fail(c0), strategy |-> UpgradeStrategyNoOp, return |-> TRUE]
           ELSE IF notEnoughInformation(ppndRequired)
           THEN [c |-> c0, strategy |-> UpgradeStrategyNoOp, return |-> TRUE]
           ELSE IF ppndRequired.value
           THEN [c |-> setStrategy(c0, UpgradeStrategyPPND),
                 strategy |-> UpgradeStrategyPPND, return |-> FALSE]
           ELSE [c |-> c0, strategy |-> UpgradeStrategyNoOp, return |-> FALSE]
  IN  IF p.return THEN p
      ELSE IF /\ GetUserStrategy = ProgressiveStrategyID
              /\ progressiveRecommended(d)
      THEN [c |-> setStrategy(p.c, UpgradeStrategyProgressive),
            strategy |-> UpgradeStrategyProgressive, return |-> FALSE]
      ELSE p

\* the switch on inProgressStrategy and the clean-up after it
\* a plausible slip: any needed update is applied directly
needsInPlaceUpdateAnyType(d) == d.needs
\* pipelineNeedsToUpdate && upgradeStrategyType == apiv1.UpgradeStrategyApply
needsInPlaceUpdate(d) == d.needs /\ d.type = UpgradeStrategyApply

\* a plausible slip: the rollout is marked Deployed, the child not updated
applyInPlaceMarkOnly(c, d, newPipelineDef, F) ==
  IF d.needs /\ d.type = UpgradeStrategyApply THEN MarkDeployed(c) ELSE c
\* the default case of the switch: an Apply-type change is applied directly
applyInPlace(c, d, newPipelineDef, F) ==
  LET deployed(c1) == IF c1.err THEN c1 ELSE MarkDeployed(c1)
  IN  IF needsInPlaceUpdate(d)
      THEN deployed(updatePipelineSpec(c, newPipelineDef, F))
      ELSE c

runStrategy(c, inProgressStrategy, d, existingPipelineDef, newPipelineDef, F) ==
  LET \* the strategy is unset once its step reports that it is done
      unsetWhenDone(q) == IF ~q.c.err /\ q.done THEN unsetStrategy(q.c) ELSE q.c
      collect(r) == IF r.err THEN r ELSE garbageCollectChildren(r, F)
  IN  collect(IF inProgressStrategy = UpgradeStrategyPPND
              THEN unsetWhenDone(processExistingPipelineWithPPND(
                                   Ev(c, "WithPPND"), existingPipelineDef,
                                   newPipelineDef, F))
              ELSE IF inProgressStrategy = UpgradeStrategyProgressive
              THEN IF d.needs
                   THEN unsetWhenDone(processResourceWithProgressive(c, newPipelineDef, F))
                   ELSE c
              ELSE applyInPlace(c, d, newPipelineDef, F))

\* the child a foreign actor makes under the promoted name
ForeignChild(refs) ==
  [NoPipeline EXCEPT !.exists = TRUE, !.ownerReferences = refs, !.generation = 1,
                     !.spec = PipelineSpec("my-isbsvc", "2", NoDesiredPhase)]

\* what may happen to the child between the two reads of a reconciliation
\* (nothing; or the child the store holds afterwards: none once deleted, a
\* foreign actor's once deleted and made again)
NoChange == [changed |-> FALSE, pl |-> NoPipeline]
Betweens ==
  {[changed |-> TRUE, pl |-> NoPipeline]}
    \cup {[changed |-> TRUE, pl |-> ForeignChild(refs)] : refs \in ForeignOwnerRefs}

\* kubernetes.GetLiveResource: the child as the store holds it now
GetLiveResource(c) ==
  IF c.between.changed THEN [c EXCEPT !.pl = c.between.pl] ELSE c

\* a nil pointer is dereferenced: the goroutine panics, deferred functions
\* run, nothing else of the reconciliation does
NilDereference(c) == [c EXCEPT !.panic = TRUE, !.err = TRUE]

processExistingPipeline(c, existingPipelineDef, newPipelineDef, F) ==
  IF "GetUserStrategy" \in F THEN FailWith(c, "GetUserStrategy")
  ELSE IF "ResourceNeedsUpdating" \in F THEN FailWith(c, "ResourceNeedsUpdating")
  ELSE
  LET d == ResourceNeedsUpdating(newPipelineDef, existingPipelineDef)
      \* the live child is merged anew; NotFound is only logged, and merge
      \* then works on a nil object
      live(c3, inProgressStrategy) ==
        IF ~c3.pl.exists THEN NilDereference(c3)
        ELSE runStrategy(c3, inProgressStrategy, d,
                         c3.pl, merge(c3.pl, newPipelineDef), F)
      \* the strategy's step: on the live child when a strategy is in progress
      run(p) ==
        IF p.return THEN p.c
        ELSE IF p.strategy = UpgradeStrategyNoOp
        THEN runStrategy(p.c, p.strategy, d, existingPipelineDef, newPipelineDef, F)
        ELSE IF "GetLiveResource" \in F THEN Fail(Ev(p.c, "GetLiveResource"))
        ELSE live(GetLiveResource(Ev(p.c, "GetLiveResource")), p.strategy)
      \* a strategy in progress overrides any new decision
      decide(c2, inProgressStrategy) ==
        run(IF inProgressStrategySet(inProgressStrategy)
            THEN [c |-> c2, strategy |-> inProgressStrategy, return |-> FALSE]
            ELSE decideStrategy(c2, d, F))
      read(c1) ==
        decide([synchronize(c1) EXCEPT !.read = getStrategy(c1)], getStrategy(c1))
  IN  read(IF d.needs THEN MarkPending(c) ELSE MarkDeployed(c))

(***************************************************************************)
(* The custom metrics of a rollout: whether it is counted among the        *)
(* running rollouts, and its entry in the health gauge.                    *)
(***************************************************************************)
NoGauge == "<no entry>"
NoMetrics == [running |-> FALSE, health |-> NoGauge]

\* apiv1.Status.IsHealthy
IsHealthy(status) ==
  status.phase = PhaseDeployed /\ status.childResourcesHealthy.status = "True"

\* customMetrics.IncPipelineROsRunning / DecPipelineROsRunning
IncPipelineROsRunning(c) == [c EXCEPT !.metrics.running = TRUE]
DecPipelineROsRunning(c) == [c EXCEPT !.metrics.running = FALSE]
\* PipelinesRolloutHealth.DeleteLabelValues
DeleteLabelValues(c) == [c EXCEPT !.metrics.health = NoGauge]
\* a plausible slip: the deferred function leaves the gauge alone
SetHealthGaugeSkipped(c) == c
\* the deferred function of reconcile: WithLabelValues(...).Set(1 or 0)
\* makes the rollout's gauge entry, whatever reconcile did before
SetHealthGauge(c) ==
  [c EXCEPT !.metrics.health = IF IsHealthy(c.ro.status) THEN "1" ELSE "0"]

\* a plausible slip: the finalizer is left on the object
RemoveFinalizerForgotten(c) == c
\* controllerutil.RemoveFinalizer on the in-memory rollout
RemoveFinalizer(c) == [c EXCEPT !.ro.finalizer = FALSE]

reconcile(c, F) ==
  SetHealthGauge(
  IF rollout.deletionTimestamp
  THEN DeleteLabelValues(DecPipelineROsRunning(Ev(RemoveFinalizer(c), "DeleteMetrics")))
  ELSE
  LET c1 == [c EXCEPT !.ro.finalizer = TRUE]
      newPipelineDef == makeRunningPipelineDefinition(rollout)
  IN  IF "makeRunningPipelineDefinition" \in F \/ "GetResource" \in F THEN Fail(c1)
      ELSE IF ~c1.pl.exists
      THEN LET c2 == Ev(MarkPending(c1), "CreateChild")
           IN  IF "CreateResource" \in F THEN Fail(c2)
               ELSE MarkDeployed(CreateResource(c2, newPipelineDef))
      ELSE LET existingPipelineDef == c1.pl
               c2 == [c1 EXCEPT !.existing = existingPipelineDef]
           IN  IF ~checkOwnerRef(existingPipelineDef.ownerReferences, RolloutUID)
               THEN Fail(c2)
               ELSE processExistingPipeline(c2, existingPipelineDef,
                      merge(existingPipelineDef, newPipelineDef), F))

\* a plausible slip: the latest child is fetched in every reconciliation
existingPipelineDefIsNilOrStale(existingPipelineDef) == TRUE
\* existingPipelineDef == nil
existingPipelineDefIsNil(existingPipelineDef) == ~existingPipelineDef.exists

processPipelineStatus(c, F) ==
  LET fetch == existingPipelineDefIsNil(c.existing)
      c1 == IF fetch THEN Ev(c, "GetLiveResource") ELSE c
      existingPipelineDef == IF fetch THEN c.pl ELSE c.existing
  IN  IF fetch /\ "makeRunningPipelineDefinition" \in F THEN Fail(c)
      ELSE IF fetch /\ "GetLiveResource" \in F THEN Fail(c1)
      ELSE IF ~existingPipelineDef.exists THEN c1
      ELSE IF "ParseStatus" \in F THEN Fail(c1)
      ELSE [c1 EXCEPT !.ro.status.childResourcesHealthy =
              setChildResourcesHealthCondition(existingPipelineDef,
                                               parsePipelineStatus(existingPipelineDef)),
                      !.ro.status.pipelinePausingOrPaused =
              setChildResourcesPauseCondition(parsePipelineStatus(existingPipelineDef))]

\* needsUpdate: the finalizers of the two objects differ
needsUpdate(old, new) == old.finalizer # new.finalizer

\* r.client.Update of the rollout: the finalizers reach the store; a rollout
\* with a deletion timestamp and no finalizer left is removed by the store
UpdateRollout(c) ==
  IF c.st.deletionTimestamp /\ ~c.ro.finalizer
  THEN [c EXCEPT !.st = NoRollout]
  ELSE [c EXCEPT !.st.finalizer = c.ro.finalizer]

updatePipelineRolloutStatus(c, F) ==
  IF "UpdateStatus" \in F \/ ~c.st.exists THEN Fail(Ev(c, "UpdateStatus"))
  ELSE Ev([c EXCEPT !.st.status = c.ro.status], "UpdateStatus")

ErrorHandler(c) == Ev(c, "Warning")

\* a plausible slip: the status is written without being marked Failed
updatePipelineRolloutStatusUnmarked(c, F) ==
  updatePipelineRolloutStatus(c, F)
updatePipelineRolloutStatusToFailed(c, F) ==
  updatePipelineRolloutStatus(MarkFailed(c), F)

\* apiv1.Status.Init: the phase and the conditions already there are kept
StatusInit(status) == status

\* between is what happens to the child in the store between the cached
\* read of reconcile and the live read of processExistingPipeline
NewContext(between) ==
  [st |-> rollout,
   ro |-> [finalizer |-> rollout.finalizer, status |-> StatusInit(rollout.status)],
   pl |-> pipeline, mem |-> strategyStore, prog |-> progressiveReady,
   existing |-> NoPipeline, tr |-> <<>>, read |-> NotRead, err |-> FALSE,
   metrics |-> metrics, between |-> between, panic |-> FALSE,
   msg |-> "", marked |-> "", set |-> ""]

\* a plausible slip: a rollout that is not found is an error like any other
GetPipelineRolloutNotFoundIsError(F) ==
  IF "GetRollout" \in F \/ ~rollout.exists THEN "error" ELSE "found"
\* r.client.Get of the rollout and the test of its error
GetPipelineRollout(F) ==
  IF "GetRollout" \in F THEN "error"
  ELSE IF ~rollout.exists THEN "NotFound"
  ELSE "found"

processPipelineRollout(F, between) ==
  IF GetPipelineRollout(F) = "error" THEN Fail(ErrorHandler(NewContext(between)))
  ELSE IF GetPipelineRollout(F) = "NotFound" THEN NewContext(between)
  ELSE
  LET \* the success path of the reconciliation's end
      finish(c5) ==
        IF c5.err THEN ErrorHandler(c5)
        ELSE Ev(IncPipelineROsRunning(Ev(c5, "IncMetrics")), "ReconcileSuccess")
      \* the status write, left out for a rollout that is being deleted
      writeStatus(c4) ==
        finish(IF ~rollout.deletionTimestamp
               THEN updatePipelineRolloutStatus(c4, F) ELSE c4)
      \* the write of the object when needsUpdate says so, then the status
      \* an error of the write of the Failed status goes to ErrorHandler too
      returned(r) ==
        IF "UpdateStatus" \in F \/ ~r.st.exists THEN ErrorHandler(Fail(r)) ELSE Fail(r)
      failed(c3) == returned(updatePipelineRolloutStatusToFailed(ErrorHandler(c3), F))
      write(c2) ==
        IF c2.panic THEN c2
        ELSE IF c2.err THEN failed(c2)
        ELSE IF ~needsUpdate(rollout, c2.ro) THEN writeStatus(c2)
        ELSE IF "UpdateRollout" \in F THEN failed(Ev(c2, "UpdateRollout"))
        ELSE writeStatus(UpdateRollout(Ev(c2, "UpdateRollout")))
      \* processPipelineStatus runs when reconcile returned no error
      status(c1) == IF c1.err THEN c1 ELSE processPipelineStatus(c1, F)
  IN  write(status(reconcile(NewContext(between), F)))

\* a plausible slip: every update of the rollout passes its watch
ResourceVersionChangedPredicate(old, new) == old # new
\* predicate.TypedGenerationChangedPredicate of the rollout watch
GenerationChangedPredicate(old, new) == old.generation # new.generation

\* a plausible slip: the child's events are not watched
OwnedByRolloutNoWatch(obj) == FALSE
\* handler.OnlyControllerOwner: the child's events reach this rollout's key
OwnedByRollout(obj) ==
  obj.exists /\ \E i \in 1..Len(obj.ownerReferences) :
                   obj.ownerReferences[i] = RolloutOwnerRef

FaultPoints ==
  {"GetRollout", "makeRunningPipelineDefinition", "GetResource", "CreateResource",
   "GetUserStrategy", "ResourceNeedsUpdating", "needPPND", "GetLiveResource",
   "UpdateChild", "PatchChild", "Progressive", "GarbageCollect", "ParseStatus",
   "UpdateRollout", "UpdateStatus"}
\* a reconciliation stops at its first failing call and then only writes
\* the status, so one failing call and a failing status write cover all
FaultSets ==
  {{}} \cup {{p} : p \in FaultPoints} \cup {{p, "UpdateStatus"} : p \in FaultPoints}

NoRun ==
  [ran |-> FALSE, err |-> FALSE, tr |-> <<>>, read |-> NotRead, call |-> "none",
   panic |-> FALSE, cause |-> "", marked |-> "", set |-> ""]

UsdeConfig(strategy, type) == [defaultUpgradeStrategy |-> strategy, disruptiveType |-> type]
UsdeConfigs ==
  { UsdeConfig(PPNDStrategyID, UpgradeStrategyPPND),
    UsdeConfig(ProgressiveStrategyID, UpgradeStrategyProgressive),
    UsdeConfig(NoStrategyID, UpgradeStrategyApply),
    UsdeConfig(NoStrategyID, UpgradeStrategyPPND),
    UsdeConfig(ProgressiveStrategyID, UpgradeStrategyPPND) }

\* ctrl.Result as processPipelineRollout builds it from reconcile's requeue
\* (seconds stand for the duration); every return of reconcile gives false
Result(requeue) ==
  IF requeue THEN [Requeue |-> TRUE, RequeueAfter |-> 30]
  ELSE [Requeue |-> FALSE, RequeueAfter |-> 0]

\* a plausible slip: an error is answered like a plain requeue-after
requeueCallNoBackoff(result, err) ==
  IF result.RequeueAfter > 0 THEN "AddAfter" ELSE "none"
\* the queue call processQueueKey makes for a result and an error
requeueCall(result, err) ==
  IF err THEN "AddRateLimited"
  ELSE IF result.Requeue THEN "AddRateLimited"
  ELSE IF result.RequeueAfter > 0 THEN "AddAfter"
  ELSE "none"

\* processQueueKey: a worker takes the key, runs processPipelineRollout and
\* re-adds the key rate-limited on error; the watches enqueue the key for
\* the child changes the run made and for the rollout's removal
processQueueKeyWith(between) ==
  /\ queued /\ ~crashed
  /\ \E F \in FaultSets :
       /\ F # {} => ~quiet /\ faulty < MaxFaulty
       /\ faulty' = IF F # {} THEN faulty + 1 ELSE faulty
       /\ LET store(c) ==
                /\ between # NoChange => Issued(c.tr, {"GetLiveResource"})
                /\ rollout' = c.st
                /\ pipeline' = c.pl
                /\ strategyStore' = c.mem
                /\ progressiveReady' = c.prog
                \* a panic returns nothing, an error included
                /\ last' = [ran |-> TRUE, err |-> c.err /\ ~c.panic, tr |-> c.tr,
                            read |-> c.read,
                            call |-> IF c.panic THEN "none"
                                     ELSE requeueCall(Result(FALSE), c.err),
                            panic |-> c.panic, cause |-> c.msg, marked |-> c.marked,
                            set |-> c.set]
                /\ queued' = /\ ~c.panic
                             /\ \/ c.pl # pipeline /\ (OwnedByRollout(c.pl) \/ OwnedByRollout(pipeline))
                                \/ rollout.exists /\ ~c.st.exists
                                \/ /\ rollout.exists /\ c.st.exists
                                   /\ GenerationChangedPredicate(rollout, c.st)
                /\ delayed' = IF c.panic THEN delayed
                              ELSE (delayed \/ requeueCall(Result(FALSE), c.err) # "none")
                /\ metrics' = c.metrics
                /\ crashed' = c.panic
          IN  store(processPipelineRollout(F, between))
  /\ UNCHANGED <<pauseRequest, usdeConfig, quiet, mergeCase, diffCase, pool, isbCase, healthCase, pauseCase, countCase>>

processQueueKey ==
  /\ processQueueKeyWith(NoChange)
  /\ UNCHANGED external

\* the timer of a rate-limited re-add fires
DelayedAdd ==
  /\ delayed /\ ~crashed
  /\ delayed' = FALSE
  /\ queued' = TRUE
  /\ UNCHANGED <<rollout, pipeline, strategyStore, pauseRequest, usdeConfig,
                 progressiveReady, last, external, faulty, quiet, metrics, crashed,
                 mergeCase, diffCase, pool, isbCase, healthCase, pauseCase, countCase>>

(***************************************************************************)
(* The rollout's surroundings: the user, other actors on the child, the    *)
(* child's own controller, the store's garbage collector, the reconciler   *)
(* that owns the pause registry entry, and a restart of the process.       *)
(***************************************************************************)
\* one more change from outside, while there may be one
External ==
  /\ ~quiet
  /\ external < MaxExternal
  /\ external' = external + 1

\* e2e "Should update the child Pipeline if the PipelineRollout is updated":
\* a new declared spec; the generation change passes the rollout watch
UserUpdatesRollout ==
  /\ External /\ rollout.exists /\ ~rollout.deletionTimestamp
  /\ \E sp \in DeclaredSpecs \ {rollout.spec} :
       rollout' = [rollout EXCEPT !.spec = sp, !.generation = @ + 1]
  /\ queued' = TRUE
  /\ last' = NoRun
  /\ UNCHANGED <<pipeline, strategyStore, pauseRequest, usdeConfig,
                 progressiveReady, delayed, faulty, quiet, metrics, crashed,
                 mergeCase, diffCase, pool, isbCase, healthCase, pauseCase, countCase>>

\* e2e "Should delete the PipelineRollout and child Pipeline": with the
\* finalizer present the store only sets the deletion timestamp
UserDeletesRollout ==
  /\ External /\ rollout.exists /\ ~rollout.deletionTimestamp
  /\ rollout' = IF rollout.finalizer
                THEN [rollout EXCEPT !.deletionTimestamp = TRUE, !.generation = @ + 1]
                ELSE NoRollout
  /\ queued' = TRUE
  /\ last' = NoRun
  /\ UNCHANGED <<pipeline, strategyStore, pauseRequest, usdeConfig,
                 progressiveReady, delayed, faulty, quiet, metrics, crashed,
                 mergeCase, diffCase, pool, isbCase, healthCase, pauseCase, countCase>>

\* e2e "Should automatically heal a Pipeline if it is updated directly"
UserEditsChild ==
  /\ External /\ pipeline.exists
  /\ \E sp \in EditedSpecs(pipeline.spec) \ {pipeline.spec} :
       pipeline' = [pipeline EXCEPT !.spec = sp, !.generation = @ + 1]
  /\ queued' = (queued \/ OwnedByRollout(pipeline))
  /\ last' = NoRun
  /\ UNCHANGED <<rollout, strategyStore, pauseRequest, usdeConfig,
                 progressiveReady, delayed, faulty, quiet, metrics, crashed,
                 mergeCase, diffCase, pool, isbCase, healthCase, pauseCase, countCase>>

\* somebody else creates an object of the promoted name
ForeignCreatesChild ==
  /\ External /\ ~pipeline.exists /\ rollout.exists
  /\ \E refs \in ForeignOwnerRefs :
       pipeline' = ForeignChild(refs)
  /\ last' = NoRun
  /\ UNCHANGED <<rollout, strategyStore, pauseRequest, usdeConfig, progressiveReady,
                 queued, delayed, faulty, quiet, metrics, crashed,
                 mergeCase, diffCase, pool, isbCase, healthCase, pauseCase, countCase>>

ChildDeleted ==
  /\ External /\ pipeline.exists
  /\ pipeline' = NoPipeline
  /\ queued' = (queued \/ OwnedByRollout(pipeline))
  /\ last' = NoRun
  /\ UNCHANGED <<rollout, strategyStore, pauseRequest, usdeConfig,
                 progressiveReady, delayed, faulty, quiet, metrics, crashed,
                 mergeCase, diffCase, pool, isbCase, healthCase, pauseCase, countCase>>

\* the status the child's own controller reports next: asked to pause, it
\* goes through Pausing to Paused and reports the drain after that
NextChildStatus(obj) ==
  [obj.status EXCEPT
     !.observedGeneration = obj.generation,
     !.phase = IF obj.spec.desiredPhase = PipelinePhasePaused
               THEN IF obj.status.phase \in {PipelinePhasePausing, PipelinePhasePaused}
                    THEN PipelinePhasePaused ELSE PipelinePhasePausing
               ELSE PipelinePhaseRunning,
     !.drainedOnPause = /\ obj.spec.desiredPhase = PipelinePhasePaused
                        /\ obj.status.phase = PipelinePhasePaused]

ChildController ==
  /\ pipeline.exists
  /\ NextChildStatus(pipeline) # pipeline.status
  /\ pipeline' = [pipeline EXCEPT !.status = NextChildStatus(pipeline)]
  /\ queued' = (queued \/ OwnedByRollout(pipeline))
  /\ last' = NoRun
  /\ UNCHANGED <<rollout, strategyStore, pauseRequest, usdeConfig,
                 progressiveReady, delayed, external, faulty, quiet, metrics, crashed,
                 mergeCase, diffCase, pool, isbCase, healthCase, pauseCase, countCase>>

\* cascading deletion through the owner reference
GarbageCollector ==
  /\ ~rollout.exists /\ OwnedByRollout(pipeline)
  /\ pipeline' = NoPipeline
  /\ queued' = TRUE
  /\ last' = NoRun
  /\ UNCHANGED <<rollout, strategyStore, pauseRequest, usdeConfig,
                 progressiveReady, delayed, external, faulty, quiet, metrics, crashed,
                 mergeCase, diffCase, pool, isbCase, healthCase, pauseCase, countCase>>

\* the reconciler owning the registry entry runs and enqueues the pipeline
OwningReconciler ==
  /\ pauseRequest = "unknown"
  /\ pauseRequest' = "known"
  /\ queued' = TRUE
  /\ last' = NoRun
  /\ UNCHANGED <<rollout, pipeline, strategyStore, usdeConfig,
                 progressiveReady, delayed, external, faulty, quiet, metrics, crashed,
                 mergeCase, diffCase, pool, isbCase, healthCase, pauseCase, countCase>>

\* the candidate of a progressive upgrade becomes ready
ProgressiveAdvance ==
  /\ strategyStore = UpgradeStrategyProgressive /\ ~progressiveReady
  /\ progressiveReady' = TRUE
  /\ queued' = TRUE
  /\ last' = NoRun
  /\ UNCHANGED <<rollout, pipeline, strategyStore, pauseRequest, usdeConfig,
                 delayed, external, faulty, quiet, metrics, crashed,
                 mergeCase, diffCase, pool, isbCase, healthCase, pauseCase, countCase>>

\* the process restarts: memory and timers are lost, every rollout is listed
Restart ==
  /\ External
  /\ strategyStore # NotInMemory \/ pauseRequest # "unknown" \/ crashed
  /\ strategyStore' = NotInMemory
  /\ pauseRequest' = "unknown"
  /\ queued' = rollout.exists
  /\ delayed' = FALSE
  /\ last' = NoRun
  /\ metrics' = NoMetrics
  /\ crashed' = FALSE
  /\ UNCHANGED <<rollout, pipeline, usdeConfig, progressiveReady, faulty, quiet,
                 mergeCase, diffCase, pool, isbCase, healthCase, pauseCase, countCase>>

\* a reconciliation during which the child is deleted, or deleted and made
\* again by a foreign actor, after reconcile read it and before the live read
processQueueKeyRaced ==
  /\ External
  /\ pipeline.exists
  /\ \E between \in Betweens : processQueueKeyWith(between)

ConfigChange ==
  /\ External
  /\ \E cfg \in UsdeConfigs \ {usdeConfig} : usdeConfig' = cfg
  /\ last' = NoRun
  /\ UNCHANGED <<rollout, pipeline, strategyStore, pauseRequest, progressiveReady,
                 queued, delayed, faulty, quiet, metrics, crashed,
                 mergeCase, diffCase, pool, isbCase, healthCase, pauseCase, countCase>>

\* from here on nobody changes anything from outside and no call fails
Quiesce ==
  /\ ~quiet
  /\ quiet' = TRUE
  /\ last' = NoRun
  /\ UNCHANGED <<rollout, pipeline, strategyStore, pauseRequest, usdeConfig,
                 progressiveReady, queued, delayed, external, faulty, metrics, crashed,
                 mergeCase, diffCase, pool, isbCase, healthCase, pauseCase, countCase>>

NewRollout(sp) ==
  [exists |-> TRUE, generation |-> 1, spec |-> sp, finalizer |-> FALSE,
   deletionTimestamp |-> FALSE, status |-> EmptyRolloutStatus]

\* no call of merge or of childNeedsUpdating is under test
Idle == [stage |-> "idle"]

Init ==
  /\ rollout = NewRollout(PipelineSpec("", "1", NoDesiredPhase))
  /\ pipeline = NoPipeline
  /\ strategyStore = NotInMemory
  /\ pauseRequest = "unknown"
  /\ usdeConfig \in UsdeConfigs
  /\ progressiveReady = FALSE
  /\ queued = TRUE
  /\ delayed = FALSE
  /\ last = NoRun
  /\ external = 0
  /\ faulty = 0
  /\ quiet = FALSE
  /\ metrics = NoMetrics
  /\ crashed = FALSE
  /\ mergeCase = Idle
  /\ diffCase = Idle
  /\ pool = Idle
  /\ isbCase = Idle
  /\ healthCase = Idle
  /\ pauseCase = Idle
  /\ countCase = Idle

Next ==
  \/ processQueueKey
  \/ DelayedAdd
  \/ UserUpdatesRollout
  \/ UserDeletesRollout
  \/ UserEditsChild
  \/ ForeignCreatesChild
  \/ ChildDeleted
  \/ ChildController
  \/ GarbageCollector
  \/ OwningReconciler
  \/ ProgressiveAdvance
  \/ Restart
  \/ ConfigChange

Spec == Init /\ [][Next]_vars

(***************************************************************************)
(* Properties.                                                             *)
(***************************************************************************)
\* the step is one run of processPipelineRollout: every other action clears
\* last, except the timer, which takes the pending re-add away
WorkerStep == last'.ran /\ (delayed => delayed')

ChildMutations == {"CreateChild", "UpdateChild", "PatchChild", "Promote"}

\* no owner reference of the child names this rollout as a PipelineRollout
NotOwned(obj) ==
  ~\E i \in 1..Len(obj.ownerReferences) :
      /\ obj.ownerReferences[i].kind = "PipelineRollout"
      /\ obj.ownerReferences[i].uid = RolloutUID

\* C1: a reconciliation of a rollout that is not being deleted, finding a
\* child of the promoted name that no owner reference ties to the rollout
\* (none, another UID, or the UID under another kind), returns an error,
\* issues no create, update or patch on the child and leaves it as it was.
C1_OwnershipEnforced ==
  [][(/\ WorkerStep
      /\ rollout.exists /\ ~rollout.deletionTimestamp
      /\ pipeline.exists /\ NotOwned(pipeline))
     => (/\ last'.err
         /\ ~Issued(last'.tr, ChildMutations)
         /\ pipeline' = pipeline)]_vars

\* a foreign child carrying the rollout's UID under another kind has just
\* been refused by a reconciliation in which no call failed
C1_Witness ==
  /\ last.ran /\ last.err /\ faulty = 0
  /\ rollout.exists /\ ~rollout.deletionTimestamp
  /\ pipeline.exists /\ NotOwned(pipeline)
  /\ Len(pipeline.ownerReferences) = 1
  /\ pipeline.ownerReferences[1].uid = RolloutUID
  /\ rollout.status.phase = PhaseFailed

Exclusive == {UpgradeStrategyPPND, UpgradeStrategyProgressive}

\* C2: the rollout's upgradeInProgress is always NoOp, PPND or Progressive;
\* a reconciliation that starts while it is PPND or Progressive does not run
\* the decision step (readiness check, setStrategy); and the value leaves
\* PPND or Progressive only for NoOp, in a reconciliation that calls
\* unsetStrategy.
C2_Exclusivity ==
  [][/\ rollout'.status.upgradeInProgress \in InProgressStrategies
     /\ (/\ WorkerStep /\ rollout.exists
         /\ rollout.status.upgradeInProgress \in Exclusive)
        => ~Issued(last'.tr, {"Decide", "SetStrategy"})
     /\ (/\ rollout.exists /\ rollout'.exists
         /\ rollout.status.upgradeInProgress \in Exclusive
         /\ rollout'.status.upgradeInProgress # rollout.status.upgradeInProgress)
        => /\ rollout'.status.upgradeInProgress = UpgradeStrategyNoOp
           /\ WorkerStep
           /\ Issued(last'.tr, {"UnsetStrategy"})]_vars

\* what getStrategy answers: the manager's memory, else the stored status
EffectiveStrategy ==
  IF strategyStore # NotInMemory THEN strategyStore
  ELSE rollout.status.upgradeInProgress

\* C2 read on the value getStrategy answers instead of the stored status
C2_EffectiveExclusivity ==
  [][/\ (/\ WorkerStep /\ rollout.exists /\ EffectiveStrategy \in Exclusive)
        => ~Issued(last'.tr, {"Decide", "SetStrategy"})
     /\ (/\ rollout.exists /\ rollout'.exists
         /\ EffectiveStrategy \in Exclusive
         /\ EffectiveStrategy' # EffectiveStrategy)
        => /\ EffectiveStrategy' = UpgradeStrategyNoOp
           /\ WorkerStep
           /\ Issued(last'.tr, {"UnsetStrategy"})]_vars

\* a reconciliation has called unsetStrategy and failed to write the status:
\* the store still shows the strategy that the manager no longer holds
C2_Witness ==
  /\ last.ran /\ last.err
  /\ Issued(last.tr, {"UnsetStrategy"})
  /\ strategyStore = UpgradeStrategyNoOp
  /\ rollout.exists /\ rollout.status.upgradeInProgress \in Exclusive

\* the live rollout owns the child, and the child's difference from the
\* declared spec is one the decision engine gives the type PPND
LiveOwner ==
  /\ rollout.exists /\ ~rollout.deletionTimestamp
  /\ pipeline.exists /\ ~NotOwned(pipeline)
DiffIsPPND ==
  /\ pipeline.spec.isb # rollout.spec.isb
  /\ usdeConfig.disruptiveType = UpgradeStrategyPPND
Drained ==
  pipeline.status.phase = PipelinePhasePaused /\ pipeline.status.drainedOnPause
SpecApartFromDesiredPhase(sp) == [sp EXCEPT !.desiredPhase = NoDesiredPhase]

\* C3: default strategy PPND, a difference of type PPND, the child Running.
\* In reconciliations in which no call fails: the one that finds no strategy
\* in progress (and the pause registry known) sets PPND and asks the child to
\* pause; every one that finds PPND in progress and the child not yet Paused
\* and drained leaves the child's spec, desiredPhase apart, as it is and
\* the phase Pending; the one that finds the child Paused and drained
\* applies the declared spec, ends Deployed and returns the strategy to
\* NoOp.  Between reconciliations nothing writes the rollout's status.
C3_PPNDScenario ==
  [][/\ (/\ WorkerStep /\ ~last'.err /\ LiveOwner /\ DiffIsPPND
         /\ GetUserStrategy = PPNDStrategyID /\ pauseRequest # "unknown"
         /\ last'.read = UpgradeStrategyNoOp
         /\ pipeline.status.phase = PipelinePhaseRunning)
        => /\ strategyStore' = UpgradeStrategyPPND
           /\ rollout'.status.upgradeInProgress = UpgradeStrategyPPND
           /\ rollout'.status.phase = PhasePending
           /\ pipeline'.spec = [pipeline.spec EXCEPT !.desiredPhase = PipelinePhasePaused]
     /\ (/\ WorkerStep /\ ~last'.err /\ LiveOwner /\ DiffIsPPND
         /\ last'.read = UpgradeStrategyPPND /\ ~Drained)
        => /\ SpecApartFromDesiredPhase(pipeline'.spec)
                = SpecApartFromDesiredPhase(pipeline.spec)
           /\ pipeline'.spec.desiredPhase = PipelinePhasePaused
           /\ rollout'.status.phase = PhasePending
           /\ rollout'.status.upgradeInProgress = UpgradeStrategyPPND
     /\ (/\ WorkerStep /\ ~last'.err /\ LiveOwner /\ DiffIsPPND
         /\ last'.read = UpgradeStrategyPPND /\ Drained)
        => /\ pipeline'.spec = rollout.spec
           /\ rollout'.status.phase = PhaseDeployed
           /\ rollout'.status.upgradeInProgress = UpgradeStrategyNoOp
           /\ strategyStore' = UpgradeStrategyNoOp
     /\ (~WorkerStep /\ rollout.exists /\ rollout'.exists)
        => rollout'.status = rollout.status]_vars

\* the whole course has been run without a failing call: created, asked to
\* pause, paused and drained, and now updated by the PPND step
C3_Witness ==
  /\ last.ran /\ ~last.err /\ faulty = 0
  /\ last.read = UpgradeStrategyPPND
  /\ Issued(last.tr, {"UpdateChild"}) /\ Issued(last.tr, {"UnsetStrategy"})
  /\ pipeline.exists /\ pipeline.spec = rollout.spec
  /\ pipeline.generation = 3
  /\ pipeline.status.phase = PipelinePhasePaused /\ pipeline.status.drainedOnPause
  /\ rollout.status.phase = PhaseDeployed
  /\ rollout.status.upgradeInProgress = UpgradeStrategyNoOp

\* C4: when the reconciliation that finds no strategy in progress and sets
\* PPND finds the child already Paused and drained, and no call fails, it
\* applies the declared spec itself, without a pause request.
C4_AlreadyPaused ==
  [][(/\ WorkerStep /\ ~last'.err /\ LiveOwner /\ DiffIsPPND
      /\ GetUserStrategy = PPNDStrategyID /\ pauseRequest # "unknown"
      /\ last'.read = UpgradeStrategyNoOp /\ Drained)
     => (/\ Issued(last'.tr, {"SetStrategy"})
         /\ Issued(last'.tr, {"UpdateChild"})
         /\ ~Issued(last'.tr, {"PatchChild"})
         /\ pipeline'.spec = rollout.spec
         /\ rollout'.status.phase = PhaseDeployed)]_vars

\* PPND was set and the spec applied in one reconciliation
C4_Witness ==
  /\ last.ran /\ ~last.err /\ faulty = 0
  /\ last.read = UpgradeStrategyNoOp
  /\ Issued(last.tr, {"SetStrategy"}) /\ Issued(last.tr, {"UpdateChild"})
  /\ ~Issued(last.tr, {"PatchChild"})
  /\ pipeline.exists /\ pipeline.spec = rollout.spec
  /\ pipeline.status.phase = PipelinePhasePaused /\ pipeline.status.drainedOnPause
  /\ rollout.status.phase = PhaseDeployed

\* C5: a reconciliation that follows another one with nothing done from
\* outside in between (no call failing in either) issues no create, update
\* or patch on the child and no update of the rollout, and leaves the
\* rollout's status as the first one wrote it.
C5_Idempotent ==
  [][(/\ WorkerStep /\ last.ran /\ ~last.err /\ ~last'.err
      /\ rollout.exists /\ ~rollout.deletionTimestamp)
     => (/\ ~Issued(last'.tr, ChildMutations \cup {"UpdateRollout"})
         /\ pipeline' = pipeline
         /\ rollout' = rollout)]_vars

(***************************************************************************)
(* The create path.                                                        *)
(***************************************************************************)
Count(tr, e) == Cardinality({i \in 1..Len(tr) : tr[i] = e})
\* every e1 of the trace comes before every e2
Before(tr, e1, e2) ==
  \A i, j \in 1..Len(tr) : (tr[i] = e1 /\ tr[j] = e2) => i < j
\* a reconciliation of a live rollout that finds no child of the promoted name
NoChildStep ==
  /\ WorkerStep
  /\ rollout.exists /\ ~rollout.deletionTimestamp
  /\ ~pipeline.exists

\* C8: a reconciliation of a rollout that is not being deleted, finding no
\* child of the promoted name: it never issues more than one create; when
\* no call fails it issues exactly one, the child in the store has the
\* rollout's spec and the controller owner reference to the rollout, the
\* phase was marked Pending before the create and Deployed after it, and the
\* stored status is Deployed with observedGeneration = generation; when the
\* create fails the reconciliation returns an error, no child is there,
\* Deployed is never marked, and the stored phase is Failed unless the
\* status write failed too, which leaves the status untouched.
C8_CreatePath ==
  [][NoChildStep =>
      /\ Count(last'.tr, "CreateChild") <= 1
      /\ ~Issued(last'.tr, {"UpdateChild", "PatchChild", "Promote"})
      /\ ~last'.err =>
           /\ Count(last'.tr, "CreateChild") = 1
           /\ rollout'.status.phase = PhaseDeployed
           /\ rollout'.status.observedGeneration = rollout.generation
      /\ pipeline'.exists =>
           /\ Count(last'.tr, "CreateChild") = 1
           /\ pipeline'.spec = rollout.spec
           /\ pipeline'.ownerReferences = <<RolloutOwnerRef>>
           /\ Count(last'.tr, "MarkPending") = 1
           /\ Count(last'.tr, "MarkDeployed") = 1
           /\ Before(last'.tr, "MarkPending", "CreateChild")
           /\ Before(last'.tr, "CreateChild", "MarkDeployed")
      /\ (Issued(last'.tr, {"CreateChild"}) /\ ~pipeline'.exists) =>
           /\ last'.err
           /\ Before(last'.tr, "MarkPending", "CreateChild")
           /\ ~Issued(last'.tr, {"MarkDeployed"})
           /\ Issued(last'.tr, {"MarkFailed"})
           /\ \/ rollout'.status.phase = PhaseFailed
              \/ rollout'.status = rollout.status]_vars

\* the child has just been created by a reconciliation in which no call
\* failed, for a rollout whose declared spec is not the initial one
C8_Witness ==
  /\ last.ran /\ ~last.err /\ faulty = 0
  /\ Count(last.tr, "CreateChild") = 1
  /\ rollout.exists /\ rollout.generation = 2
  /\ pipeline.exists /\ pipeline.generation = 1
  /\ pipeline.spec = rollout.spec
  /\ pipeline.ownerReferences = <<RolloutOwnerRef>>
  /\ rollout.status.phase = PhaseDeployed
  /\ rollout.status.observedGeneration = 2

\* a create has failed and the reconciliation has written Failed
C8_WitnessCreateFails ==
  /\ last.ran /\ last.err
  /\ Issued(last.tr, {"CreateChild"}) /\ ~pipeline.exists
  /\ rollout.exists /\ rollout.status.phase = PhaseFailed

(***************************************************************************)
(* merge in memory.  A Go map is a reference: an object's labels and       *)
(* annotations are <<>> (nil) or <<i>>, the i-th map of the heap.          *)
(***************************************************************************)
Deref(heap, ref) == IF ref = <<>> THEN NilMap ELSE GoMap(heap[ref[1]])
ObjectValue(heap, obj) ==
  [obj EXCEPT !.labels = Deref(heap, obj.labels),
              !.annotations = Deref(heap, obj.annotations)]

DeepCopyMap(heap, ref) ==
  IF ref = <<>> THEN [heap |-> heap, ref |-> <<>>]
  ELSE [heap |-> Append(heap, heap[ref[1]]), ref |-> <<Len(heap) + 1>>]

\* a plausible slip: the struct is copied, its maps are shared
ShallowCopy(heap, obj) == [heap |-> heap, obj |-> obj]
\* GenericObject.DeepCopy
DeepCopy(heap, obj) ==
  LET l == DeepCopyMap(heap, obj.labels)
      a == DeepCopyMap(l.heap, obj.annotations)
  IN  [heap |-> a.heap, obj |-> [obj EXCEPT !.labels = l.ref, !.annotations = a.ref]]

\* one of the two loops of merge, on the map ref of the result
mergeInto(heap, ref, src) ==
  LET h == IF ref = <<>> THEN Append(heap, <<>>) ELSE heap
      r == IF ref = <<>> THEN <<Len(heap) + 1>> ELSE ref
  IN  [heap |-> [h EXCEPT ![r[1]] = mergeMap(GoMap(h[r[1]]), Deref(h, src)).kv],
       ref |-> r]

mergeInMemory(heap, existingPipeline, newPipeline) ==
  LET resultPipeline == DeepCopy(heap, existingPipeline)
      l == mergeInto(resultPipeline.heap, resultPipeline.obj.labels, newPipeline.labels)
      a == mergeInto(l.heap, resultPipeline.obj.annotations, newPipeline.annotations)
  IN  [heap |-> a.heap,
       obj |-> [resultPipeline.obj EXCEPT !.spec = newPipeline.spec,
                                          !.labels = l.ref, !.annotations = a.ref]]

MergeKeys == {"app", "team"}
MergeValues == {"v1", "v2"}
\* every map over at most the two keys
MergeMaps ==
  UNION {[ks -> MergeValues] : ks \in SUBSET MergeKeys}
\* the heaps and objects merge is called with: the existing object as the
\* store returned it, the desired one as makePipelineDefinition builds it
MergeInputs ==
  { [heap |-> <<el, dl, ea>>,
     existing |-> [exists |-> TRUE, ownerReferences |-> <<RolloutOwnerRef>>,
                   labels |-> elr, annotations |-> ear, generation |-> 2,
                   spec |-> PipelineSpec("", "1", edp),
                   status |-> [EmptyChildStatus EXCEPT !.phase = PipelinePhaseRunning]],
     desired |-> [exists |-> TRUE, ownerReferences |-> <<RolloutOwnerRef>>,
                  labels |-> dlr, annotations |-> dar, generation |-> 0,
                  spec |-> dsp, status |-> EmptyChildStatus]] :
     el \in MergeMaps, dl \in MergeMaps,
     ea \in {f \in MergeMaps : DOMAIN f \subseteq {"app"}},
     elr \in {<<>>, <<1>>}, dlr \in {<<>>, <<2>>, <<1>>},
     ear \in {<<>>, <<3>>}, dar \in {<<>>, <<3>>},
     edp \in {NoDesiredPhase, PipelinePhasePaused}, dsp \in DeclaredSpecs }

IdleMain ==
  /\ rollout = NoRollout
  /\ pipeline = NoPipeline
  /\ strategyStore = NotInMemory
  /\ pauseRequest = "unknown"
  /\ usdeConfig = UsdeConfig(NoStrategyID, UpgradeStrategyApply)
  /\ progressiveReady = FALSE
  /\ queued = FALSE
  /\ delayed = FALSE
  /\ last = NoRun
  /\ external = 0
  /\ faulty = 0
  /\ quiet = FALSE
  /\ metrics = NoMetrics
  /\ crashed = FALSE

InitMerge ==
  /\ IdleMain
  /\ diffCase = Idle
  /\ pool = Idle
  /\ isbCase = Idle
  /\ healthCase = Idle
  /\ pauseCase = Idle
  /\ countCase = Idle
  /\ \E in \in MergeInputs :
       mergeCase = [stage |-> "called", before |-> in.heap, heap |-> in.heap,
                    existing |-> in.existing, desired |-> in.desired,
                    result |-> in.existing]

MergeCall ==
  /\ mergeCase.stage = "called"
  /\ LET r == mergeInMemory(mergeCase.heap, mergeCase.existing, mergeCase.desired)
     IN  mergeCase' = [mergeCase EXCEPT !.stage = "returned", !.heap = r.heap,
                                        !.result = r.obj]
  /\ UNCHANGED <<mainVars, diffCase, pool, isbCase, healthCase, pauseCase, countCase>>

SpecMerge == InitMerge /\ [][MergeCall]_vars

UnionDesiredWins(result, existing, desired) ==
  /\ ~result.isNil
  /\ DOMAIN result.kv = MapKeys(existing) \cup MapKeys(desired)
  /\ \A k \in DOMAIN result.kv :
       result.kv[k] = IF k \in MapKeys(desired) THEN desired.kv[k] ELSE existing.kv[k]

\* C6: once merge has returned, the result's spec is the desired object's,
\* its labels and its annotations are the key-wise union of the two
\* objects' with the desired value on every shared key, its other fields
\* are the existing object's, and both input objects, maps included, are
\* what they were at the call.  The merge of the reconciliation (merge, on
\* values) gives the same object.
C6_MergeCorrect ==
  mergeCase.stage = "returned" =>
    LET existing == ObjectValue(mergeCase.before, mergeCase.existing)
        desired == ObjectValue(mergeCase.before, mergeCase.desired)
        result == ObjectValue(mergeCase.heap, mergeCase.result)
    IN  /\ result.spec = desired.spec
        /\ UnionDesiredWins(result.labels, existing.labels, desired.labels)
        /\ UnionDesiredWins(result.annotations, existing.annotations, desired.annotations)
        /\ result.ownerReferences = existing.ownerReferences
        /\ result.generation = existing.generation
        /\ result.status = existing.status
        /\ result.exists = existing.exists
        /\ ObjectValue(mergeCase.heap, mergeCase.existing) = existing
        /\ ObjectValue(mergeCase.heap, mergeCase.desired) = desired
        /\ result = merge(existing, desired)

\* merge has returned for two objects that share a label key with
\* different values, the existing one having a key of its own and the
\* desired one sharing its labels map with nobody
C6_Witness ==
  /\ mergeCase.stage = "returned"
  /\ mergeCase.existing.labels = <<1>> /\ mergeCase.desired.labels = <<2>>
  /\ DOMAIN mergeCase.before[1] = {"app", "team"}
  /\ DOMAIN mergeCase.before[2] = {"app"}
  /\ mergeCase.before[1]["app"] # mergeCase.before[2]["app"]
  /\ mergeCase.heap[mergeCase.result.labels[1]]["app"] = mergeCase.before[2]["app"]
  /\ mergeCase.existing.spec # mergeCase.desired.spec

(***************************************************************************)
(* childNeedsUpdating.  A spec is a JSON document: a function from its     *)
(* keys to a string (interStepBufferServiceName), a number literal (limit) *)
(* or an object (lifecycle).                                               *)
(***************************************************************************)
\* encoding/json into map[string]any: a number becomes the nearest float64
Float64Of(literal) ==
  CASE literal = "5" -> "5"
    [] literal = "9007199254740992" -> "9007199254740992"
    [] literal = "9007199254740993" -> "9007199254740992"

\* json.Unmarshal(obj.Spec.Raw, &specAsMap)
Unmarshal(raw) ==
  [k \in DOMAIN raw |->
     IF k = "limit" THEN Float64Of(raw[k])
     ELSE IF k = "lifecycle"
     THEN [j \in DOMAIN raw[k] |->
             IF j = "pauseGracePeriodSeconds" THEN Float64Of(raw[k][j]) ELSE raw[k][j]]
     ELSE raw[k]]

Without(f, key) == [k \in DOMAIN f \ {key} |-> f[k]]

\* util.RemovePaths(m, {"lifecycle.desiredPhase"}, "."): the key is deleted
\* from the lifecycle map if both are there
RemoveDesiredPhase(m) ==
  IF "lifecycle" \in DOMAIN m /\ "desiredPhase" \in DOMAIN m["lifecycle"]
  THEN [m EXCEPT !["lifecycle"] = Without(m["lifecycle"], "desiredPhase")]
  ELSE m

\* remove 'lifecycle.desiredPhase' key/value pair from spec
\* also remove 'lifecycle' if it's an empty map
withoutDesiredPhase(raw) ==
  LET specAsMap == RemoveDesiredPhase(Unmarshal(raw))
  IN  IF "lifecycle" \in DOMAIN specAsMap /\ DOMAIN specAsMap["lifecycle"] = {}
      THEN Without(specAsMap, "lifecycle")
      ELSE specAsMap

\* childNeedsUpdating() tests for essential equality, with any irrelevant
\* fields eliminated from the comparison
childNeedsUpdating(a, b) == withoutDesiredPhase(a) # withoutDesiredPhase(b)

Lifecycles ==
  UNION {[ks -> {"x"}] : ks \in SUBSET {"desiredPhase", "pauseGracePeriodSeconds"}}
\* the lifecycle objects of the documents under test
LifecycleDocs ==
  { [k \in DOMAIN f |-> IF k = "desiredPhase" THEN dp ELSE "5"] :
      f \in Lifecycles, dp \in {PipelinePhasePaused, PipelinePhaseRunning} }
DiffDocs ==
  { [k \in ks |-> IF k = "interStepBufferServiceName" THEN isb
                  ELSE IF k = "limit" THEN lim ELSE lc] :
      ks \in {s \in SUBSET {"interStepBufferServiceName", "limit", "lifecycle"} :
                "interStepBufferServiceName" \in s},
      isb \in {"default", "my-isbsvc"},
      lim \in {"5", "9007199254740992", "9007199254740993"},
      lc \in LifecycleDocs }

InitDiff ==
  /\ IdleMain
  /\ mergeCase = Idle
  /\ pool = Idle
  /\ isbCase = Idle
  /\ healthCase = Idle
  /\ pauseCase = Idle
  /\ countCase = Idle
  /\ \E a \in DiffDocs, b \in DiffDocs :
       diffCase = [stage |-> "called", a |-> a, b |-> b, result |-> FALSE]

ChildNeedsUpdatingCall ==
  /\ diffCase.stage = "called"
  /\ diffCase' = [diffCase EXCEPT !.stage = "returned",
                                  !.result = childNeedsUpdating(diffCase.a, diffCase.b)]
  /\ UNCHANGED <<mainVars, mergeCase, pool, isbCase, healthCase, pauseCase, countCase>>

SpecDiff == InitDiff /\ [][ChildNeedsUpdatingCall]_vars

\* the documents are the same once lifecycle.desiredPhase is taken out of
\* both, a lifecycle that held nothing else going with it
OnlyLifecycleOf(doc) ==
  IF /\ "lifecycle" \in DOMAIN doc
     /\ DOMAIN doc["lifecycle"] = {"desiredPhase"}
  THEN Without(doc, "lifecycle")
  ELSE IF "lifecycle" \in DOMAIN doc /\ "desiredPhase" \in DOMAIN doc["lifecycle"]
  THEN [doc EXCEPT !["lifecycle"] = Without(doc["lifecycle"], "desiredPhase")]
  ELSE doc
DifferOnlyInDesiredPhase(a, b) ==
  \/ OnlyLifecycleOf(a) = OnlyLifecycleOf(b)
  \/ /\ "lifecycle" \in DOMAIN a /\ "lifecycle" \in DOMAIN b
     /\ RemoveDesiredPhase(a) = RemoveDesiredPhase(b)

\* C7: childNeedsUpdating returns false for two specs that differ in
\* lifecycle.desiredPhase alone (present and absent, or two values, also
\* when one lifecycle holds nothing else and the other spec has none), and
\* true for two specs that differ in any other field.
C7_DiffExclusion ==
  diffCase.stage = "returned" =>
    /\ DifferOnlyInDesiredPhase(diffCase.a, diffCase.b) => ~diffCase.result
    /\ ~DifferOnlyInDesiredPhase(diffCase.a, diffCase.b) => diffCase.result

\* the first half of C7 alone
C7_FalseOnDesiredPhase ==
  diffCase.stage = "returned" =>
    (DifferOnlyInDesiredPhase(diffCase.a, diffCase.b) => ~diffCase.result)

\* the call has returned false for two specs whose limits differ in the
\* last digit
C7_Witness ==
  /\ diffCase.stage = "returned" /\ ~diffCase.result
  /\ "limit" \in DOMAIN diffCase.a /\ "limit" \in DOMAIN diffCase.b
  /\ diffCase.a["limit"] = "9007199254740992"
  /\ diffCase.b["limit"] = "9007199254740993"
  /\ "lifecycle" \notin DOMAIN diffCase.a /\ "lifecycle" \notin DOMAIN diffCase.b

(***************************************************************************)
(* Progress.  The queue's workers keep taking keys, timers fire, the       *)
(* child's controller, the registry's owning reconciler, the progressive   *)
(* candidate and the store's garbage collector keep running; from some     *)
(* point on nothing changes from outside and no call fails.                *)
(***************************************************************************)
NextLive == Next \/ Quiesce

\* weak fairness of the worker, WF_vars(processQueueKey), with the enabling
\* condition written out: a run is possible exactly when the key is queued
WorkerFairness == []<>(~queued) \/ []<><<processQueueKey>>_vars

Fairness ==
  /\ WorkerFairness
  /\ WF_vars(DelayedAdd)
  /\ WF_vars(ChildController)
  /\ WF_vars(OwningReconciler)
  /\ WF_vars(ProgressiveAdvance)
  /\ WF_vars(GarbageCollector)

SpecLive == Init /\ [][NextLive]_vars /\ Fairness

\* nothing of the controller or of its surroundings has a step left to take
Settled ==
  /\ ~queued /\ ~delayed
  /\ ~(pipeline.exists /\ NextChildStatus(pipeline) # pipeline.status)
  /\ pauseRequest # "unknown"
  /\ ~(strategyStore = UpgradeStrategyProgressive /\ ~progressiveReady)
  /\ ~(~rollout.exists /\ OwnedByRollout(pipeline))

\* the decision engine recommends a type the reconciler acts on under the
\* configured strategy: Apply, or the strategy's own type
EngineActs ==
  usdeConfig \in { UsdeConfig(PPNDStrategyID, UpgradeStrategyPPND),
                   UsdeConfig(ProgressiveStrategyID, UpgradeStrategyProgressive),
                   UsdeConfig(NoStrategyID, UpgradeStrategyApply) }

\* the rollout is the child's controller owner, as it is of every child it
\* created
ControllerOwned == pipeline.ownerReferences = <<RolloutOwnerRef>>

DiffersApartFromDesiredPhase ==
  SpecApartFromDesiredPhase(pipeline.spec) # SpecApartFromDesiredPhase(rollout.spec)

C10_Deletion ==
  /\ [][(WorkerStep /\ rollout.exists /\ rollout.deletionTimestamp)
        => /\ ~Issued(last'.tr, ChildMutations)
           /\ pipeline' = pipeline
           /\ ~last'.err => /\ Issued(last'.tr, {"UpdateRollout"})
                            /\ ~rollout'.exists]_vars
  /\ (rollout.exists /\ rollout.deletionTimestamp) ~> ~rollout.exists

\* the deleting reconciliation has run and the rollout is gone, its child
\* still there for the garbage collector
C10_Witness ==
  /\ last.ran /\ ~last.err
  /\ Issued(last.tr, {"DeleteMetrics"}) /\ Issued(last.tr, {"UpdateRollout"})
  /\ ~rollout.exists
  /\ OwnedByRollout(pipeline)

(***************************************************************************)
(* The metrics of a rollout that is being deleted.                         *)
(***************************************************************************)
\* C11: when the reconciliation of a rollout that carries a deletion
\* timestamp has returned, the rollout is not counted among the running
\* rollouts and has no entry in the health gauge
C11_MetricsCleared ==
  [][(WorkerStep /\ rollout.exists /\ rollout.deletionTimestamp)
       => (~metrics'.running /\ metrics'.health = NoGauge)]_vars

\* the deletion has been reconciled without error, and the rollout is
\* counted as running and has a gauge entry
C11_Witness ==
  /\ last.ran /\ ~last.err /\ Issued(last.tr, {"DeleteMetrics"})
  /\ ~rollout.exists
  /\ metrics.running /\ metrics.health = "0"

(***************************************************************************)
(* The work queue and its workers (SpecQueue).  The queue is the           *)
(* rate-limiting work queue of util.NewWorkQueue: queue holds the keys to  *)
(* hand out, in order; dirty the keys that need processing; processing the *)
(* keys handed out and not yet marked Done; waiting the keys of pending    *)
(* delayed adds.  The workers are counted by where they are in runWorker:  *)
(* getting (blocked in or about to call Get), running[k] (processQueueKey  *)
(* of k not yet returned), ran[k] (returned, Done not yet called), exited. *)
(* wg is the counter of shutdownWorkerWaitGroup.  What a reconciliation    *)
(* does to the store is left out here: only its result and error matter.   *)
(***************************************************************************)
numWorkers == 16
\* the keys that may be enqueued
QueueKeys == {"ns/a", "ns/b"}
\* the pending entries the queue may hold (reached only if it stops
\* collapsing equal keys)
MaxQueue == 3

\* the limiter's base delay (the unit of delay) and the failures after
\* which its delay no longer grows
BaseDelay == 1
MaxFailures == 2
RECURSIVE Pow2(_)
Pow2(n) == IF n = 0 THEN 1 ELSE 2 * Pow2(n - 1)

InSeq(q, k) == \E i \in 1..Len(q) : q[i] = k

NewWorkQueue ==
  [queue |-> <<>>, dirty |-> {}, processing |-> {}, waiting |-> {},
   shuttingDown |-> FALSE,
   getting |-> 0, running |-> [k \in QueueKeys |-> 0], ran |-> [k \in QueueKeys |-> 0],
   exited |-> 0, wg |-> 0, shutdown |-> "no",
   failures |-> [k \in QueueKeys |-> 0], clean |-> [k \in QueueKeys |-> FALSE],
   call |-> [key |-> "", result |-> Result(FALSE), err |-> FALSE, call |-> "none",
             delay |-> 0, clean |-> FALSE]]

\* queue.Add: nothing once shutting down, nothing for a key already dirty;
\* a key that is being processed is only marked dirty
Add(p, k) ==
  IF p.shuttingDown \/ k \in p.dirty THEN p
  ELSE IF k \in p.processing THEN [p EXCEPT !.dirty = @ \cup {k}]
  ELSE [p EXCEPT !.dirty = @ \cup {k}, !.queue = Append(@, k)]

\* queue.Get when the queue is not empty
Get(p) ==
  [p EXCEPT !.queue = Tail(@), !.processing = @ \cup {Head(p.queue)},
            !.dirty = @ \ {Head(p.queue)}]

\* queue.Done: a key that became dirty while it was processed is queued
Done(p, k) ==
  IF k \in p.dirty
  THEN [p EXCEPT !.processing = @ \ {k}, !.queue = Append(@, k)]
  ELSE [p EXCEPT !.processing = @ \ {k}]

\* queue.AddRateLimited, queue.AddAfter with a positive duration: the key
\* is added when its timer fires
AddLater(p, k) ==
  IF p.shuttingDown THEN p ELSE [p EXCEPT !.waiting = @ \cup {k}]

\* the rate limiter's When: the base delay doubled for every failure the
\* limiter remembers of the key, up to its longest delay
When(p, k) == BaseDelay * Pow2(p.failures[k])

\* queue.AddRateLimited: the key is added after When, and the limiter
\* remembers one failure more (no more than make the longest delay)
AddRateLimited(p, k) ==
  [AddLater(p, k) EXCEPT !.failures[k] = IF @ < MaxFailures THEN @ + 1 ELSE @]

\* queue.ShutDown
ShutDown(p) == [p EXCEPT !.shuttingDown = TRUE]

\* sync.WaitGroup.Done: a Wait that is blocked returns when the counter
\* reaches zero
WaitGroupDone(p) ==
  [p EXCEPT !.wg = @ - 1,
            !.shutdown = IF p.wg = 1 /\ @ = "waiting" THEN "returned" ELSE @]

\* runWorkers: each round of the loop adds to the wait-group and starts a worker
RECURSIVE runWorkersFrom(_, _)
runWorkersFrom(i, p) ==
  IF i >= numWorkers THEN p
  ELSE runWorkersFrom(i + 1, [p EXCEPT !.wg = @ + numWorkers, !.getting = @ + 1])
runWorkers(p) == runWorkersFrom(0, p)

\* ctrl.Result values
Results == [Requeue : BOOLEAN, RequeueAfter : {0, 30}]

IdleSides ==
  /\ mergeCase = Idle
  /\ diffCase = Idle
  /\ isbCase = Idle
  /\ healthCase = Idle
  /\ pauseCase = Idle
  /\ countCase = Idle

InitQueue ==
  /\ IdleMain
  /\ IdleSides
  /\ pool = runWorkers(NewWorkQueue)

\* Reconcile / enqueuePipeline, also called by the other reconcilers
Reconcile ==
  /\ \E k \in QueueKeys :
       /\ Len(pool.queue) < MaxQueue
       /\ pool' = Add(pool, k)
       /\ pool' # pool
  /\ UNCHANGED <<mainVars, mergeCase, diffCase, isbCase, healthCase, pauseCase, countCase>>

\* a plausible slip: the key is marked Done as soon as it is taken
runWorkerGetThenDone ==
  /\ pool.getting > 0 /\ pool.queue # <<>>
  /\ pool' = [Done(Get(pool), Head(pool.queue)) EXCEPT
                !.getting = @ - 1, !.running[Head(pool.queue)] = @ + 1]
  /\ UNCHANGED <<mainVars, mergeCase, diffCase, isbCase, healthCase, pauseCase, countCase>>
\* runWorker: Get hands a key to a worker
runWorkerGet ==
  /\ pool.getting > 0 /\ pool.queue # <<>>
  /\ pool' = [Get(pool) EXCEPT
                !.getting = @ - 1, !.running[Head(pool.queue)] = @ + 1]
  /\ UNCHANGED <<mainVars, mergeCase, diffCase, isbCase, healthCase, pauseCase, countCase>>

\* runWorker: Get reports quit (queue empty and shutting down), the worker
\* calls Done on the wait-group and returns
runWorkerQuit ==
  /\ pool.getting > 0 /\ pool.queue = <<>> /\ pool.shuttingDown
  /\ pool' = [WaitGroupDone(pool) EXCEPT !.getting = @ - 1, !.exited = @ + 1]
  /\ UNCHANGED <<mainVars, mergeCase, diffCase, isbCase, healthCase, pauseCase, countCase>>

\* processQueueKey on a key: processPipelineRollout returns a result and
\* maybe an error, and the key is added back accordingly
runWorkerProcess ==
  /\ \E k \in QueueKeys, result \in Results, err \in BOOLEAN :
       /\ pool.running[k] > 0
       /\ LET call == requeueCall(result, err)
              p == IF call = "none" THEN pool
                   ELSE IF call = "AddRateLimited" THEN AddRateLimited(pool, k)
                   ELSE AddLater(pool, k)
          IN  pool' = [p EXCEPT !.running[k] = @ - 1, !.ran[k] = @ + 1,
                                !.clean[k] = ~err /\ call = "none",
                                !.call = [key |-> k, result |-> result,
                                          err |-> err, call |-> call,
                                          delay |-> IF call = "AddRateLimited"
                                                    THEN When(pool, k)
                                                    ELSE result.RequeueAfter,
                                          clean |-> pool.clean[k]]]
  /\ UNCHANGED <<mainVars, mergeCase, diffCase, isbCase, healthCase, pauseCase, countCase>>

\* runWorker: queue.Done(key), and round the loop again
runWorkerDone ==
  /\ \E k \in QueueKeys :
       /\ pool.ran[k] > 0
       /\ pool' = [Done(pool, k) EXCEPT !.ran[k] = @ - 1, !.getting = @ + 1]
  /\ UNCHANGED <<mainVars, mergeCase, diffCase, isbCase, healthCase, pauseCase, countCase>>

\* the timer of a delayed add fires
WaitingTimer ==
  /\ \E k \in pool.waiting :
       /\ ~pool.shuttingDown
       /\ Len(pool.queue) < MaxQueue
       /\ pool' = [Add(pool, k) EXCEPT !.waiting = @ \ {k}]
  /\ UNCHANGED <<mainVars, mergeCase, diffCase, isbCase, healthCase, pauseCase, countCase>>

\* Shutdown: the queue is shut down, then Wait on the wait-group
Shutdown ==
  /\ pool.shutdown = "no"
  /\ pool' = [ShutDown(pool) EXCEPT
                !.shutdown = IF pool.wg = 0 THEN "returned" ELSE "waiting"]
  /\ UNCHANGED <<mainVars, mergeCase, diffCase, isbCase, healthCase, pauseCase, countCase>>

NextQueue ==
  \/ Reconcile
  \/ runWorkerGet
  \/ runWorkerQuit
  \/ runWorkerProcess
  \/ runWorkerDone
  \/ WaitingTimer
  \/ Shutdown

SpecQueue == InitQueue /\ [][NextQueue]_vars

\* C12: no two workers are in processPipelineRollout (or between it and
\* Done) for one key; the queue holds a key at most once and never a key
\* that is being processed; a key added while it was processed is in the
\* queue again as soon as it is marked Done
C12_OneWorkerPerKey ==
  /\ [](\A k \in QueueKeys :
          /\ pool.running[k] + pool.ran[k] <= 1
          /\ pool.running[k] + pool.ran[k] = 1 <=> k \in pool.processing
          /\ k \in pool.processing => ~InSeq(pool.queue, k)
          /\ \A i, j \in 1..Len(pool.queue) :
               pool.queue[i] = pool.queue[j] => i = j)
  /\ [][\A k \in QueueKeys :
          (pool.ran[k] = 1 /\ pool'.ran[k] = 0 /\ k \in pool.dirty)
            => InSeq(pool'.queue, k)]_vars

\* a key was added again while a worker runs on it, other workers are idle,
\* and it has not been handed out a second time
C12_Witness ==
  \E k \in QueueKeys :
    /\ pool.running[k] = 1 /\ k \in pool.dirty /\ k \in pool.processing
    /\ pool.getting = numWorkers - 1
    /\ pool.call.key = k /\ pool.call.call = "AddRateLimited"

\* C13: once Shutdown has been called and all the workers have exited,
\* Shutdown has returned
C13_ShutdownReturns ==
  (pool.shutdown # "no" /\ pool.exited = numWorkers) => pool.shutdown = "returned"

\* Shutdown was called with a worker busy; the worker has finished its key,
\* every worker has exited, and Shutdown still waits
C13_Witness ==
  /\ pool.shutdown = "waiting" /\ pool.exited = numWorkers
  /\ pool.call.key # "" /\ pool.processing = {}
  /\ pool.wg = numWorkers * numWorkers - numWorkers

C15_ErrorBackoff ==
  [][WorkerStep =>
       /\ last'.err => /\ last'.call = "AddRateLimited"
                       /\ delayed'
                       /\ Issued(last'.tr, {"Warning"})
       /\ ~last'.err => last'.call = "none" /\ delayed' = delayed]_vars

\* the ownership conflict: the run ended in an error, with a warning, the
\* key waits for its rate-limited re-add and is not in the queue
C15_Witness ==
  /\ last.ran /\ last.err /\ last.call = "AddRateLimited"
  /\ pipeline.exists /\ NotOwned(pipeline) /\ rollout.exists
  /\ Issued(last.tr, {"Warning"}) /\ Issued(last.tr, {"MarkFailed"})
  /\ delayed /\ ~queued

(***************************************************************************)
(* A reconciliation and a change of the child between its two reads        *)
(* (SpecRace).                                                             *)
(***************************************************************************)
NextRace == Next \/ processQueueKeyRaced

SpecRace == Init /\ [][NextRace]_vars

\* the children a foreign actor makes, as it makes them
ForeignChildren == {ForeignChild(refs) : refs \in ForeignOwnerRefs}

\* C16: whatever happens to the child during a reconciliation, a child
\* that no owner reference ties to the rollout's UID is, after the
\* reconciliation, as it was before or as the foreign actor made it: no
\* update or patch of the rollout has been applied to it
C16_NoForeignMutation ==
  [][(WorkerStep /\ pipeline'.exists /\ NotOwned(pipeline'))
       => (pipeline' = pipeline \/ pipeline' \in ForeignChildren)]_vars

\* a foreign actor's child has been patched or updated for the rollout
C16_Witness ==
  /\ last.ran /\ Issued(last.tr, {"GetLiveResource"})
  /\ Issued(last.tr, {"PatchChild", "UpdateChild", "Promote"})
  /\ pipeline.exists /\ NotOwned(pipeline) /\ pipeline \notin ForeignChildren
  /\ rollout.exists

\* C20: no reconciliation ends in a panic
C20_NoPanic == ~crashed

\* the live read found no child while a strategy was in progress, and the
\* process is gone
C20_Witness ==
  /\ crashed /\ last.ran /\ last.panic
  /\ Issued(last.tr, {"GetLiveResource"})
  /\ ~pipeline.exists /\ rollout.exists
  /\ ~Issued(last.tr, {"Warning", "UpdateStatus"})

(***************************************************************************)
(* The strategy in progress across a restart.                              *)
(***************************************************************************)
\* C17: in a reconciliation that starts with nothing in the manager's
\* memory and reaches the read of the strategy: when the stored status says
\* PPND or Progressive, getStrategy answers that value, no decision is made
\* and no strategy set, the live read is made, no step of the other
\* strategy and no direct apply is run, and in a run without error the
\* strategy's own step is run (the progressive one when the child needs
\* updating); when the stored status says nothing or NoOp, getStrategy
\* answers NoOp and the decision is made.
C17_RestartResumes ==
  [][(/\ WorkerStep /\ strategyStore = NotInMemory /\ rollout.exists
      /\ last'.read # NotRead)
       => /\ rollout.status.upgradeInProgress \in Exclusive
             => /\ last'.read = rollout.status.upgradeInProgress
                /\ ~Issued(last'.tr, {"Decide", "SetStrategy"})
                /\ Issued(last'.tr, {"GetLiveResource"})
          /\ rollout.status.upgradeInProgress = UpgradeStrategyPPND
             => /\ ~Issued(last'.tr, {"Progressive", "Promote"})
                /\ ~last'.err => Issued(last'.tr, {"WithPPND"})
          /\ rollout.status.upgradeInProgress = UpgradeStrategyProgressive
             => /\ ~Issued(last'.tr, {"WithPPND", "PatchChild", "UpdateChild"})
                /\ (~last'.err /\ Issued(last'.tr, {"MarkPending"}))
                     => Issued(last'.tr, {"Progressive", "Promote"})
          /\ rollout.status.upgradeInProgress \notin Exclusive
             => /\ last'.read = UpgradeStrategyNoOp
                /\ Issued(last'.tr, {"Decide"})]_vars

\* the first reconciliation after a restart has run the PPND step for a
\* strategy only the stored status knew of, and has applied the new spec
C17_Witness ==
  /\ last.ran /\ ~last.err /\ last.read = UpgradeStrategyPPND
  /\ Issued(last.tr, {"WithPPND"}) /\ ~Issued(last.tr, {"Decide", "SetStrategy"})
  /\ Issued(last.tr, {"UpdateChild", "UnsetStrategy"})
  /\ external > 0 /\ pauseRequest = "unknown"

(***************************************************************************)
(* A failing write of the rollout's status.                                *)
(***************************************************************************)
\* the last status write of the run failed: its error went to ErrorHandler
\* and nothing was called after that
StatusWriteFailed(tr) ==
  /\ Len(tr) >= 2
  /\ tr[Len(tr) - 1] = "UpdateStatus" /\ tr[Len(tr)] = "Warning"

\* C19: a reconciliation in which a write of the rollout's status failed
\* has attempted the write at least twice
C19_StatusWriteRetried ==
  [][(WorkerStep /\ StatusWriteFailed(last'.tr))
       => Count(last'.tr, "UpdateStatus") >= 2]_vars

\* the status write was the only call that failed, it was attempted once,
\* and the reconciliation returned its error
C19_Witness ==
  /\ last.ran /\ last.err /\ StatusWriteFailed(last.tr)
  /\ ~Issued(last.tr, {"MarkFailed"})
  /\ Count(last.tr, "UpdateStatus") = 1 /\ Count(last.tr, "Warning") = 1
  /\ rollout.exists /\ pipeline.exists

(***************************************************************************)
(* The ISBServiceRollout reconciler under PPND (SpecISB), as               *)
(* Test_reconcile_isbservicerollout_PPND sets it up: default strategy      *)
(* PPND, an InterStepBufferService whose spec carries a version, pipelines *)
(* of pipeline rollouts that name the service, and the pause request the   *)
(* reconciler keeps for the service in the pause module.                   *)
(***************************************************************************)
ISBVersions == {"2.10.3", "2.10.11"}
ISBPipelines == {1, 2}
NoPauseRequest == "nil"
PauseRequests == {NoPauseRequest, "true", "false"}

NoISBService == [exists |-> FALSE, spec |-> "", reconciled |-> FALSE]
\* createDefaultISBService(version, phase, fullyReconciled)
createDefaultISBService(version, fullyReconciled) ==
  [exists |-> TRUE, spec |-> version, reconciled |-> fullyReconciled]

\* createDefaultPipelineOfPhase, with the drained-on-pause flag of the status
\* and the allow-data-loss label of the pipeline's rollout
PipelineOfPhase(phase, drained, allowDataLoss) ==
  [phase |-> phase, drained |-> drained, allowDataLoss |-> allowDataLoss]
ISBPipelinePhases ==
  {PipelinePhaseRunning, PipelinePhasePausing, PipelinePhasePaused, PipelinePhaseFailed}

NoISBRun == [ran |-> FALSE, created |-> FALSE, updated |-> FALSE]

\* a pipeline that is paused and drained, or will not pause: it has failed,
\* or its rollout is labelled to allow data loss
isPipelinePausedOrWontPause(pl) ==
  \/ pl.phase = PipelinePhasePaused /\ pl.drained
  \/ pl.phase = PipelinePhaseFailed
  \/ pl.allowDataLoss

\* a plausible slip: one pipeline that is paused is enough
anyPipelinePausedOrWontPause(pipelines) ==
  \E i \in DOMAIN pipelines : isPipelinePausedOrWontPause(pipelines[i])
areAllPipelinesPausedOrWontPause(pipelines) ==
  \A i \in DOMAIN pipelines : isPipelinePausedOrWontPause(pipelines[i])

\* the pause module's request for the service key: whether it changed
requestPipelinesPause(s, pause) ==
  [s |-> [s EXCEPT !.request = IF pause THEN "true" ELSE "false"],
   updated |-> s.request # (IF pause THEN "true" ELSE "false")]

updateISBService(s) ==
  [s EXCEPT !.isbsvc = createDefaultISBService(s.declared, FALSE),
            !.phase = PhaseDeployed, !.last.updated = TRUE]

\* the PPND step of a rollout whose child the pipelines depend on
processChildObjectWithPPND(s, resourceNeedsUpdating, resourceIsUpdating) ==
  IF resourceNeedsUpdating \/ resourceIsUpdating
  THEN LET checked(r) ==
             \* too soon to look at the pipelines when the request is new
             IF ~r.updated /\ resourceNeedsUpdating
                /\ areAllPipelinesPausedOrWontPause(r.s.pipelines)
             THEN updateISBService(r.s)
             ELSE r.s
       IN  [s |-> checked(requestPipelinesPause(s, TRUE)), done |-> FALSE]
  ELSE [s |-> requestPipelinesPause(s, FALSE).s, done |-> TRUE]

\* ISBServiceRolloutReconciler.reconcile with default strategy PPND and a
\* change of the service's spec that the engine gives the type PPND
reconcileISBService(s) ==
  IF ~s.isbsvc.exists
  THEN [s EXCEPT !.isbsvc = createDefaultISBService(s.declared, FALSE),
                 !.phase = PhaseDeployed, !.last.created = TRUE]
  ELSE
  LET isbServiceNeedsUpdating == s.isbsvc.spec # s.declared
      isbServiceIsUpdating == ~s.isbsvc.reconciled
      unsetWhenDone(q) ==
        IF q.done THEN [q.s EXCEPT !.strategy = UpgradeStrategyNoOp] ELSE q.s
      run(s2) ==
        IF s2.strategy = UpgradeStrategyPPND
        THEN unsetWhenDone(processChildObjectWithPPND(
                             s2, isbServiceNeedsUpdating, isbServiceIsUpdating))
        ELSE s2
      decide(s1) ==
        run(IF s1.strategy = UpgradeStrategyNoOp /\ isbServiceNeedsUpdating
            THEN [s1 EXCEPT !.strategy = UpgradeStrategyPPND]
            ELSE s1)
  IN  decide([s EXCEPT !.phase = IF isbServiceNeedsUpdating THEN PhasePending
                                 ELSE PhaseDeployed])

\* the test's case: what is in place before reconcile is called
ISBCase(newISBSvcSpec, existingISBSvcDef, existingPipeline, existingPauseRequest, initialInProgressStrategy) ==
  [stage |-> "isb", declared |-> newISBSvcSpec, isbsvc |-> existingISBSvcDef,
   pipelines |-> [i \in ISBPipelines |-> existingPipeline],
   request |-> existingPauseRequest, phase |-> PhasePending,
   strategy |-> initialInProgressStrategy, last |-> NoISBRun]

\* what the test checks after reconcile
ISBExpect(s, expectedPauseRequest, expectedRolloutPhase, expectedISBSvcSpec, expectedInProgressStrategy) ==
  /\ s.request = expectedPauseRequest
  /\ s.phase = expectedRolloutPhase
  /\ s.isbsvc.exists /\ s.isbsvc.spec = expectedISBSvcSpec
  /\ s.strategy = expectedInProgressStrategy

\* the eight cases of Test_reconcile_isbservicerollout_PPND (the Paused
\* pipeline of the test taken as drained)
TestReconcileISBServiceRolloutPPND ==
  LET running == PipelineOfPhase(PipelinePhaseRunning, FALSE, FALSE)
      paused == PipelineOfPhase(PipelinePhasePaused, TRUE, FALSE)
      failed == PipelineOfPhase(PipelinePhaseFailed, FALSE, FALSE)
      allowed == PipelineOfPhase(PipelinePhasePausing, FALSE, TRUE)
      old == createDefaultISBService("2.10.3", TRUE)
  IN  /\ ISBExpect(reconcileISBService(ISBCase("2.10.3", NoISBService, running,
                       NoPauseRequest, UpgradeStrategyNoOp)),
                   NoPauseRequest, PhaseDeployed, "2.10.3", UpgradeStrategyNoOp)
      /\ ISBExpect(reconcileISBService(ISBCase("2.10.3", old, running,
                       "false", UpgradeStrategyNoOp)),
                   "false", PhaseDeployed, "2.10.3", UpgradeStrategyNoOp)
      /\ ISBExpect(reconcileISBService(ISBCase("2.10.11", old, running,
                       "false", UpgradeStrategyNoOp)),
                   "true", PhasePending, "2.10.3", UpgradeStrategyPPND)
      /\ ISBExpect(reconcileISBService(ISBCase("2.10.11", old, paused,
                       "true", UpgradeStrategyPPND)),
                   "true", PhaseDeployed, "2.10.11", UpgradeStrategyPPND)
      /\ ISBExpect(reconcileISBService(ISBCase("2.10.11", old, failed,
                       "true", UpgradeStrategyPPND)),
                   "true", PhaseDeployed, "2.10.11", UpgradeStrategyPPND)
      /\ ISBExpect(reconcileISBService(ISBCase("2.10.11", old, allowed,
                       "true", UpgradeStrategyPPND)),
                   "true", PhaseDeployed, "2.10.11", UpgradeStrategyPPND)
      /\ ISBExpect(reconcileISBService(ISBCase("2.10.11",
                       createDefaultISBService("2.10.11", FALSE), paused,
                       "true", UpgradeStrategyPPND)),
                   "true", PhaseDeployed, "2.10.11", UpgradeStrategyPPND)
      /\ ISBExpect(reconcileISBService(ISBCase("2.10.11",
                       createDefaultISBService("2.10.11", TRUE), paused,
                       "true", UpgradeStrategyPPND)),
                   "false", PhaseDeployed, "2.10.11", UpgradeStrategyNoOp)

InitISB ==
  /\ IdleMain
  /\ mergeCase = Idle /\ diffCase = Idle /\ pool = Idle /\ healthCase = Idle
  /\ pauseCase = Idle /\ countCase = Idle
  /\ \E allow \in [ISBPipelines -> BOOLEAN] :
       isbCase = [stage |-> "isb", declared |-> "2.10.3", isbsvc |-> NoISBService,
                  pipelines |-> [i \in ISBPipelines |->
                                   PipelineOfPhase(PipelinePhaseRunning, FALSE, allow[i])],
                  request |-> NoPauseRequest, phase |-> PhasePending,
                  strategy |-> UpgradeStrategyNoOp, last |-> NoISBRun]

\* one reconciliation of the ISBServiceRollout
ISBReconcile ==
  /\ isbCase' = reconcileISBService([isbCase EXCEPT !.last = [NoISBRun EXCEPT !.ran = TRUE]])
  /\ UNCHANGED <<mainVars, mergeCase, diffCase, pool, healthCase, pauseCase, countCase>>

\* the user declares another spec for the service
ISBUserUpdates ==
  /\ \E v \in ISBVersions \ {isbCase.declared} :
       isbCase' = [isbCase EXCEPT !.declared = v, !.last = NoISBRun]
  /\ UNCHANGED <<mainVars, mergeCase, diffCase, pool, healthCase, pauseCase, countCase>>

\* a pipeline is seen in another phase (drained only when Paused)
ISBPipelineMoves ==
  /\ \E i \in ISBPipelines, phase \in ISBPipelinePhases, drained \in BOOLEAN :
       /\ drained => phase = PipelinePhasePaused
       /\ <<phase, drained>> # <<isbCase.pipelines[i].phase, isbCase.pipelines[i].drained>>
       /\ isbCase' = [isbCase EXCEPT !.pipelines[i].phase = phase,
                                     !.pipelines[i].drained = drained,
                                     !.last = NoISBRun]
  /\ UNCHANGED <<mainVars, mergeCase, diffCase, pool, healthCase, pauseCase, countCase>>

\* the service's own controller has brought the service to its spec
ISBServiceReconciled ==
  /\ isbCase.isbsvc.exists /\ ~isbCase.isbsvc.reconciled
  /\ isbCase' = [isbCase EXCEPT !.isbsvc.reconciled = TRUE, !.last = NoISBRun]
  /\ UNCHANGED <<mainVars, mergeCase, diffCase, pool, healthCase, pauseCase, countCase>>

\* the process starts again: the pause module is empty
ISBRestart ==
  /\ isbCase.request # NoPauseRequest
  /\ isbCase' = [isbCase EXCEPT !.request = NoPauseRequest, !.last = NoISBRun]
  /\ UNCHANGED <<mainVars, mergeCase, diffCase, pool, healthCase, pauseCase, countCase>>

NextISB ==
  \/ ISBReconcile
  \/ ISBUserUpdates
  \/ ISBPipelineMoves
  \/ ISBServiceReconciled
  \/ ISBRestart

SpecISB == InitISB /\ [][NextISB]_vars

ISBStep == isbCase'.last.ran
ISBNeedsUpdating == isbCase.isbsvc.exists /\ isbCase.isbsvc.spec # isbCase.declared
ISBSpecChanged == isbCase.isbsvc.exists /\ isbCase'.isbsvc.spec # isbCase.isbsvc.spec
AllPausedAndDrained ==
  \A i \in ISBPipelines :
    isbCase.pipelines[i].phase = PipelinePhasePaused /\ isbCase.pipelines[i].drained
AllPausedDrainedFailedOrAllowed ==
  \A i \in ISBPipelines :
    \/ isbCase.pipelines[i].phase = PipelinePhasePaused /\ isbCase.pipelines[i].drained
    \/ isbCase.pipelines[i].phase = PipelinePhaseFailed
    \/ isbCase.pipelines[i].allowDataLoss
ISBHeldBack ==
  /\ isbCase'.isbsvc = isbCase.isbsvc
  /\ isbCase'.request = "true"
  /\ isbCase'.phase = PhasePending
  /\ isbCase'.strategy = UpgradeStrategyPPND

NoFault == faulty' = faulty

\* C21: a worker step for a key whose rollout is not in the store, the
\* store answering properly, returns no error and asks for no requeue,
\* makes no call at all (no create, update, patch, status write or
\* warning), leaves rollout, child, strategy and metrics as they are, and
\* the key is neither re-added by the worker nor queued by a watch.
C21_NotFoundIsNothingToDo ==
  [][(WorkerStep /\ ~rollout.exists /\ NoFault)
       => /\ ~last'.err /\ ~last'.panic
          /\ last'.call = "none"
          /\ last'.tr = <<>>
          /\ rollout' = rollout /\ pipeline' = pipeline
          /\ strategyStore' = strategyStore /\ metrics' = metrics
          /\ ~queued' /\ delayed' = delayed]_vars

\* the key of a rollout that was deleted and is gone has been processed,
\* with the child still in the store
C21_Witness ==
  /\ last.ran /\ ~last.err /\ last.tr = <<>> /\ last.call = "none"
  /\ ~rollout.exists /\ pipeline.exists
  /\ ~queued /\ ~delayed /\ faulty = 0

(***************************************************************************)
(* A failing decision engine.                                              *)
(***************************************************************************)
EngineErrors == {"GetUserStrategy", "ResourceNeedsUpdating"}

\* C22: a worker step in which GetUserStrategy or ResourceNeedsUpdating
\* of processExistingPipeline returned an error leaves the child as it is,
\* issues no child mutation, makes no decision and sets no strategy (the
\* manager's memory and the stored strategy are unchanged), hands that
\* error's message to MarkFailed, returns an error and re-adds the key
\* rate-limited; the stored phase is Failed unless the status write failed
\* as well.
C22_EngineError ==
  [][(WorkerStep /\ last'.cause \in EngineErrors)
       => /\ pipeline' = pipeline
          /\ ~Issued(last'.tr, ChildMutations \cup {"Decide", "SetStrategy", "UnsetStrategy"})
          /\ strategyStore' = strategyStore
          /\ rollout'.status.upgradeInProgress = rollout.status.upgradeInProgress
          /\ last'.err /\ last'.call = "AddRateLimited" /\ delayed'
          /\ Issued(last'.tr, {"MarkFailed"}) /\ last'.marked = last'.cause
          /\ ~StatusWriteFailed(last'.tr)
               => (rollout'.exists /\ rollout'.status.phase = PhaseFailed)]_vars

\* ResourceNeedsUpdating failed on an owned child that differs from the
\* declared spec, after a reconciliation had left the rollout Deployed
C22_Witness ==
  /\ last.ran /\ last.err /\ last.cause = "ResourceNeedsUpdating"
  /\ last.marked = "ResourceNeedsUpdating"
  /\ rollout.exists /\ rollout.status.phase = PhaseFailed
  /\ pipeline.exists /\ ~NotOwned(pipeline) /\ pipeline.spec # rollout.spec
  /\ delayed

(***************************************************************************)
(* The decision.                                                           *)
(***************************************************************************)
\* the strategy getStrategy answers before the step is NoOp
NoStrategyInProgress == EffectiveStrategy = UpgradeStrategyNoOp

DiffIsApply ==
  \/ /\ pipeline.spec.isb # rollout.spec.isb
     /\ usdeConfig.disruptiveType = UpgradeStrategyApply
  \/ /\ pipeline.spec.isb = rollout.spec.isb
     /\ pipeline.spec.scale # rollout.spec.scale

AppliedInPlace ==
  /\ Issued(last'.tr, {"UpdateChild"})
  /\ pipeline'.spec = rollout.spec
  /\ rollout'.status.phase = PhaseDeployed
  /\ rollout'.status.upgradeInProgress = UpgradeStrategyNoOp
  /\ EffectiveStrategy' = UpgradeStrategyNoOp
  /\ last'.set = ""

IndeterminateEnd ==
  /\ last.ran /\ ~last.err /\ last.set = ""
  /\ Issued(last.tr, {"Decide"})
  /\ GetUserStrategy = PPNDStrategyID /\ pauseRequest = "unknown"
  /\ rollout.exists

\* C25: a worker step without a failing call that starts with no strategy
\* in progress, an owned child, the default strategy PPND and nothing
\* known of the pause requests returns no error, sets no strategy, issues
\* no child mutation and leaves the child as it is, makes no queue call,
\* and leaves the rollout Pending when its child differs from the declared
\* spec; and after such an end a reconciliation runs again with the pause
\* requests known.
C25_IndeterminateReadiness ==
  /\ [][(/\ WorkerStep /\ NoFault /\ NoStrategyInProgress /\ LiveOwner
         /\ GetUserStrategy = PPNDStrategyID /\ pauseRequest = "unknown")
          => /\ ~last'.err /\ last'.call = "none"
             /\ last'.set = "" /\ EffectiveStrategy' = UpgradeStrategyNoOp
             /\ ~Issued(last'.tr, ChildMutations \cup {"GetLiveResource"})
             /\ pipeline' = pipeline
             /\ DiffersApartFromDesiredPhase
                  => rollout'.status.phase = PhasePending]_vars
  /\ (IndeterminateEnd ~> (last.ran /\ pauseRequest # "unknown"))

\* the reconciliation has ended early on an Apply-type difference: Pending,
\* nothing applied, nothing queued by the worker
C25_Witness ==
  /\ IndeterminateEnd /\ faulty = 0
  /\ LiveOwner /\ DiffIsApply
  /\ rollout.status.phase = PhasePending
  /\ last.call = "none" /\ ~delayed
  /\ ~Issued(last.tr, ChildMutations)

(***************************************************************************)
(* A reconciliation that has to wait.                                      *)
(***************************************************************************)
\* the PPND step ran without error and PPND is still in progress
WaitingOnPPND ==
  /\ last.ran /\ ~last.err /\ rollout.exists
  /\ Issued(last.tr, {"WithPPND"})
  /\ EffectiveStrategy = UpgradeStrategyPPND

\* C26: a worker step that ends without error with the PPND step still
\* waiting (PPND in progress after it) is answered by the worker with
\* AddAfter, so that the key comes back after the fixed interval.
C26_RequeueAfterWhenWaiting ==
  [][(WorkerStep /\ NoFault /\ WaitingOnPPND') => last'.call = "AddAfter"]_vars

\* the PPND step waits for a child that is not yet paused and drained, and
\* the worker has made no queue call; no add is pending
C26_Witness ==
  /\ WaitingOnPPND /\ faulty = 0
  /\ LiveOwner /\ ~Drained /\ DiffersApartFromDesiredPhase
  /\ last.call = "none" /\ ~queued /\ ~delayed

(***************************************************************************)
(* Setting Progressive.                                                    *)
(***************************************************************************)
DiffIsProgressive ==
  /\ pipeline.spec.isb # rollout.spec.isb
  /\ usdeConfig.disruptiveType = UpgradeStrategyProgressive

ProgressiveStepInvoked(tr) == Issued(tr, {"Progressive", "Promote"})

\* C27: a worker step without a failing call that starts with no strategy
\* in progress and an owned child sets Progressive exactly when the default
\* strategy is Progressive and the difference of the child is of type
\* Progressive, and the progressive step is then invoked in that step; in
\* no worker step on an owned child is the progressive step invoked unless
\* the child differs from the declared spec.
C27_ProgressiveSetIff ==
  [][/\ (WorkerStep /\ NoFault /\ NoStrategyInProgress /\ LiveOwner)
          => /\ (last'.set = UpgradeStrategyProgressive)
                  <=> (/\ usdeConfig.defaultUpgradeStrategy = ProgressiveStrategyID
                       /\ DiffIsProgressive)
             /\ (last'.set = UpgradeStrategyProgressive)
                  => ProgressiveStepInvoked(last'.tr)
     /\ (WorkerStep /\ LiveOwner /\ ProgressiveStepInvoked(last'.tr))
          => DiffersApartFromDesiredPhase]_vars

\* Progressive has just been set and its step has run, the candidate not
\* being ready yet
C27_Witness ==
  /\ last.ran /\ ~last.err /\ faulty = 0
  /\ last.read = UpgradeStrategyNoOp
  /\ last.set = UpgradeStrategyProgressive
  /\ ProgressiveStepInvoked(last.tr)
  /\ EffectiveStrategy = UpgradeStrategyProgressive
  /\ LiveOwner /\ DiffIsProgressive

(***************************************************************************)
(* The live read of the child.                                             *)
(***************************************************************************)
\* the reconciliation found a strategy in progress or set one
StrategyInProgressIn(run) == run.read \in Exclusive \/ run.set \in Exclusive

MaxGeneration == 2
MaxConditions == 2

ChildResourceConditionTypes ==
  {"VerticesHealthy", "SideInputsManagersHealthy", "DaemonServiceHealthy"}
HealthConditions ==
  [type : ChildResourceConditionTypes \cup {"Configured"},
   status : {"True", "False", "Unknown"},
   reason : {"Progressing", "Unavailable"}]
HealthConditionLists ==
  UNION {[1..n -> HealthConditions] : n \in 0..MaxConditions}
HealthPhases ==
  {PipelinePhaseRunning, PipelinePhasePausing, PipelinePhasePaused,
   PipelinePhaseFailed, PipelinePhaseDeleting, PipelinePhaseUnknown}

InitHealth ==
  /\ IdleMain
  /\ mergeCase = Idle /\ diffCase = Idle /\ pool = Idle /\ isbCase = Idle
  /\ pauseCase = Idle /\ countCase = Idle
  /\ \E g \in 1..MaxGeneration, o \in 0..(MaxGeneration + 1),
        ph \in HealthPhases, conds \in HealthConditionLists :
       healthCase =
         [stage |-> "called",
          pipeline |-> [NoPipeline EXCEPT
                          !.exists = TRUE, !.generation = g,
                          !.status = [phase |-> ph, drainedOnPause |-> FALSE,
                                      observedGeneration |-> o,
                                      conditions |-> conds]],
          result |-> EmptyCondition]

SetChildResourcesHealthConditionCall ==
  /\ healthCase.stage = "called"
  /\ healthCase' =
       [healthCase EXCEPT
          !.stage = "returned",
          !.result = setChildResourcesHealthCondition(
                       healthCase.pipeline, parsePipelineStatus(healthCase.pipeline))]
  /\ UNCHANGED <<mainVars, mergeCase, diffCase, pool, isbCase, pauseCase, countCase>>

SpecHealth == InitHealth /\ [][SetChildResourcesHealthConditionCall]_vars

HealthStatus == healthCase.pipeline.status
UnhealthyProgressing == [status |-> "False", reason |-> "Progressing"]
\* the conditions of the three types whose status is not True
NotTrue(conds) ==
  {i \in 1..Len(conds) :
     conds[i].type \in ChildResourceConditionTypes /\ conds[i].status # "True"}
\* the first of them has the reason Progressing
FirstNotTrueIsProgressing(conds) ==
  \E i \in NotTrue(conds) :
     /\ \A j \in NotTrue(conds) : i <= j
     /\ conds[i].reason = "Progressing"

\* C29: for a child whose observedGeneration is lower than its generation
\* the projection gives Unhealthy with reason Progressing, whatever the
\* phase and the conditions; with an observedGeneration equal to or greater
\* than the generation the reason Progressing is given only for a
\* condition, and a Running child whose conditions are all True is Healthy.
C29_BehindIsProgressing ==
  healthCase.stage = "returned" =>
    /\ HealthStatus.observedGeneration < healthCase.pipeline.generation
         => healthCase.result = UnhealthyProgressing
    /\ HealthStatus.observedGeneration >= healthCase.pipeline.generation
         => /\ healthCase.result.reason = "Progressing"
                 => NotTrue(HealthStatus.conditions) # {}
            /\ (/\ NotTrue(HealthStatus.conditions) = {}
                /\ HealthStatus.phase = PipelinePhaseRunning)
                 => healthCase.result.status = "True"

\* a Failed child with a False condition whose status is behind its
\* generation has been projected as Progressing
C29_Witness ==
  /\ healthCase.stage = "returned"
  /\ HealthStatus.observedGeneration < healthCase.pipeline.generation
  /\ HealthStatus.phase = PipelinePhaseFailed
  /\ \E i \in NotTrue(HealthStatus.conditions) :
       HealthStatus.conditions[i].reason # "Progressing"
  /\ healthCase.result = UnhealthyProgressing

\* C30 as stated: a condition of the three types that is not True gives
\* Unhealthy with reason Progressing.
C30_NotTrueIsProgressing ==
  (healthCase.stage = "returned" /\ NotTrue(HealthStatus.conditions) # {})
    => healthCase.result = UnhealthyProgressing

\* C30: when the first condition of the three types that is not True has
\* the reason Progressing the projection gives Unhealthy with reason
\* Progressing, whatever the phase and the generations; for a child whose
\* status is current the reason Progressing is given in no other case.
C30_ProgressingReasonIsProgressing ==
  healthCase.stage = "returned" =>
    /\ FirstNotTrueIsProgressing(HealthStatus.conditions)
         => healthCase.result = UnhealthyProgressing
    /\ (/\ HealthStatus.observedGeneration >= healthCase.pipeline.generation
        /\ healthCase.result.reason = "Progressing")
         => FirstNotTrueIsProgressing(HealthStatus.conditions)

\* a Failed child whose status is current and whose first condition that
\* is not True has the reason Progressing has been projected as Progressing
C30_Witness ==
  /\ healthCase.stage = "returned"
  /\ HealthStatus.observedGeneration >= healthCase.pipeline.generation
  /\ HealthStatus.phase = PipelinePhaseFailed
  /\ FirstNotTrueIsProgressing(HealthStatus.conditions)
  /\ Len(HealthStatus.conditions) = 2
  /\ HealthStatus.conditions[1].status = "True"
  /\ healthCase.result = UnhealthyProgressing

(***************************************************************************)
(* The later rules of the health projection (SpecHealth).                  *)
(***************************************************************************)
StatusCurrent ==
  HealthStatus.observedGeneration >= healthCase.pipeline.generation
SomeFalse(conds) == \E i \in NotTrue(conds) : conds[i].status = "False"
\* a condition of the three types that is not True has the reason Progressing
SomeProgressing(conds) == \E i \in NotTrue(conds) : conds[i].reason = "Progressing"
UnhealthyPipelineFailed == [status |-> "False", reason |-> "PipelineFailed"]
HealthUnknownPipelineUnknown == [status |-> "Unknown", reason |-> "PipelineUnknown"]
UnhealthyPipelineDeleting == [status |-> "False", reason |-> "PipelineDeleting"]

\* C31: when a condition of the three types is False and the projection
\* does not give Unhealthy/Progressing, it gives Unhealthy with reason
\* PipelineFailed, in every order of the conditions and for every phase.
C31_FalseIsPipelineFailed ==
  (/\ healthCase.stage = "returned"
   /\ SomeFalse(HealthStatus.conditions)
   /\ healthCase.result # UnhealthyProgressing)
    => healthCase.result = UnhealthyPipelineFailed

\* a Running child whose status is current has a condition Unknown before
\* a condition False, and the projection gave HealthUnknown
C31_Witness ==
  /\ healthCase.stage = "returned" /\ StatusCurrent
  /\ HealthStatus.phase = PipelinePhaseRunning
  /\ NotTrue(HealthStatus.conditions) = {1, 2}
  /\ HealthStatus.conditions[1].status = "Unknown"
  /\ HealthStatus.conditions[2].status = "False"
  /\ healthCase.result = HealthUnknownPipelineUnknown

\* C32: for a child whose status is current, whose phase is not Failed and
\* none of whose conditions of the three types is False or not True with
\* the reason Progressing, the phases Paused and Pausing give HealthUnknown
\* with reason PipelineUnknown and the phase Deleting gives Unhealthy with
\* reason PipelineDeleting, also with a condition Unknown.
C32_PausedAndDeleting ==
  (/\ healthCase.stage = "returned" /\ StatusCurrent
   /\ ~SomeFalse(HealthStatus.conditions)
   /\ ~SomeProgressing(HealthStatus.conditions))
    => /\ HealthStatus.phase \in {PipelinePhasePaused, PipelinePhasePausing}
            => healthCase.result = HealthUnknownPipelineUnknown
       /\ HealthStatus.phase = PipelinePhaseDeleting
            => healthCase.result = UnhealthyPipelineDeleting

\* a Deleting child with a condition Unknown has been projected as
\* PipelineDeleting
C32_Witness ==
  /\ healthCase.stage = "returned" /\ StatusCurrent
  /\ HealthStatus.phase = PipelinePhaseDeleting
  /\ NotTrue(HealthStatus.conditions) # {}
  /\ ~SomeFalse(HealthStatus.conditions)
  /\ ~SomeProgressing(HealthStatus.conditions)
  /\ healthCase.result = UnhealthyPipelineDeleting

\* C33: the projection gives Healthy exactly for a child whose status is
\* current, whose conditions of the three types are all True and whose
\* phase is none of Failed, Paused, Pausing, Deleting, Unknown; and what it
\* gives is one of Healthy, Unhealthy, HealthUnknown.
C33_HealthyIff ==
  healthCase.stage = "returned" =>
    /\ (healthCase.result.status = "True")
         <=> (/\ StatusCurrent
              /\ NotTrue(HealthStatus.conditions) = {}
              /\ HealthStatus.phase \notin
                   {PipelinePhaseFailed, PipelinePhasePaused, PipelinePhasePausing,
                    PipelinePhaseDeleting, PipelinePhaseUnknown})
    /\ healthCase.result.status \in {"True", "False", "Unknown"}
    /\ healthCase.result.status = "True" => healthCase.result.reason = "Successful"

\* a Running child ahead of its generation, with a True condition of each
\* of two types, has been projected as Healthy
C33_Witness ==
  /\ healthCase.stage = "returned"
  /\ HealthStatus.observedGeneration > healthCase.pipeline.generation
  /\ HealthStatus.phase = PipelinePhaseRunning
  /\ Len(HealthStatus.conditions) = 2
  /\ \A i \in 1..2 : HealthStatus.conditions[i].type \in ChildResourceConditionTypes
  /\ healthCase.result.status = "True"

(***************************************************************************)
(* SpecPause: the pause times of setChildResourcesPauseCondition over the  *)
(* reconciliations of one rollout.  Time is counted in ticks; the store    *)
(* keeps a metav1.Time to the second.                                      *)
(***************************************************************************)
TicksPerSecond == 2
MaxTime == 9
\* the zero time.Time of the package variable initTime
InitTime == 0
\* metav1.Time's serialisation (RFC 3339, whole seconds)
StoredTime(t) == (t \div TicksPerSecond) * TicksPerSecond
\* time.Time.After
After(t, u) == t > u

NoPauseStatus == [LastPauseBeginTime |-> InitTime, LastPauseEndTime |-> InitTime]
NoPauseRun == [ran |-> FALSE, first |-> FALSE, beginSet |-> FALSE, endSet |-> FALSE]
PausePhases == {PipelinePhaseRunning, PipelinePhasePausing, PipelinePhasePaused}

\* BeginTime hasn't been set yet (for this pause)
beginTimeNotSet(pauseStatus) ==
  \/ pauseStatus.LastPauseBeginTime = InitTime
  \/ ~After(pauseStatus.LastPauseBeginTime, pauseStatus.LastPauseEndTime)
\* BeginTime has been previously set AND EndTime is before/equal to BeginTime
endTimeNotSet(pauseStatus) ==
  /\ pauseStatus.LastPauseBeginTime # InitTime
  /\ ~After(pauseStatus.LastPauseEndTime, pauseStatus.LastPauseBeginTime)

\* the two assignments of setChildResourcesPauseCondition
setLastPauseTimes(pauseStatus, pipelinePhase, now) ==
  IF pausedOrPausing(pipelinePhase)
  THEN IF beginTimeNotSet(pauseStatus)
       THEN [pauseStatus EXCEPT !.LastPauseBeginTime = now]
       ELSE pauseStatus
  ELSE IF endTimeNotSet(pauseStatus)
       THEN [pauseStatus EXCEPT !.LastPauseEndTime = now]
       ELSE pauseStatus

\* the status write and the read of the next reconciliation
StoredPauseStatus(pauseStatus) ==
  [LastPauseBeginTime |-> StoredTime(pauseStatus.LastPauseBeginTime),
   LastPauseEndTime |-> StoredTime(pauseStatus.LastPauseEndTime)]

InitPause ==
  /\ IdleMain
  /\ mergeCase = Idle /\ diffCase = Idle /\ pool = Idle /\ isbCase = Idle
  /\ healthCase = Idle /\ countCase = Idle
  /\ pauseCase = [stage |-> "pause", now |-> TicksPerSecond,
                  phase |-> PipelinePhaseRunning, pauseStatus |-> NoPauseStatus,
                  prev |-> "none", last |-> NoPauseRun]

\* time passes
PauseTick ==
  /\ pauseCase.stage = "pause" /\ pauseCase.now < MaxTime
  /\ pauseCase' = [pauseCase EXCEPT !.now = @ + 1, !.last = NoPauseRun]
  /\ UNCHANGED <<mainVars, mergeCase, diffCase, pool, isbCase, healthCase, countCase>>

\* the child reports another phase
PauseChildMoves ==
  /\ pauseCase.stage = "pause"
  /\ \E ph \in PausePhases \ {pauseCase.phase} :
       pauseCase' = [pauseCase EXCEPT !.phase = ph, !.last = NoPauseRun]
  /\ UNCHANGED <<mainVars, mergeCase, diffCase, pool, isbCase, healthCase, countCase>>

\* one reconciliation: the stored status is read, the times are set from
\* the child's phase and the clock, the status is written
PauseReconcile ==
  /\ pauseCase.stage = "pause"
  /\ pauseCase' =
       [pauseCase EXCEPT
          !.pauseStatus = StoredPauseStatus(
                            setLastPauseTimes(pauseCase.pauseStatus, pauseCase.phase,
                                              pauseCase.now)),
          !.prev = IF pausedOrPausing(pauseCase.phase) THEN "paused" ELSE "unpaused",
          !.last = [ran |-> TRUE,
                    first |-> IF pausedOrPausing(pauseCase.phase)
                              THEN pauseCase.prev # "paused"
                              ELSE pauseCase.prev = "paused",
                    beginSet |-> /\ pausedOrPausing(pauseCase.phase)
                                 /\ beginTimeNotSet(pauseCase.pauseStatus),
                    endSet |-> /\ ~pausedOrPausing(pauseCase.phase)
                               /\ endTimeNotSet(pauseCase.pauseStatus)]]
  /\ UNCHANGED <<mainVars, mergeCase, diffCase, pool, isbCase, healthCase, countCase>>

NextPause == PauseTick \/ PauseChildMoves \/ PauseReconcile
SpecPause == InitPause /\ [][NextPause]_vars

PauseObserved == pauseCase'.last.ran
ObservedPausing == pausedOrPausing(pauseCase.phase)

\* C34: a reconciliation assigns LastPauseBeginTime exactly when it is the
\* first of a run of reconciliations that see the child Paused or Pausing;
\* no later one of the run and none that sees the child unpaused assigns or
\* changes it.
C34_BeginOncePerEpisode ==
  [][PauseObserved =>
       /\ pauseCase'.last.beginSet <=> (ObservedPausing /\ pauseCase.prev # "paused")
       /\ ~(ObservedPausing /\ pauseCase.prev # "paused")
            => pauseCase'.pauseStatus.LastPauseBeginTime
                 = pauseCase.pauseStatus.LastPauseBeginTime]_vars

\* a later reconciliation of an episode that began in the second in which
\* the last one ended has assigned LastPauseBeginTime again
C34_Witness ==
  /\ pauseCase.stage = "pause" /\ pauseCase.last.ran
  /\ pausedOrPausing(pauseCase.phase)
  /\ ~pauseCase.last.first /\ pauseCase.last.beginSet
  /\ After(pauseCase.pauseStatus.LastPauseBeginTime, pauseCase.pauseStatus.LastPauseEndTime)
  /\ pauseCase.pauseStatus.LastPauseEndTime # InitTime

\* C35: a reconciliation assigns LastPauseEndTime only when it sees the
\* child outside Paused and Pausing with LastPauseBeginTime set and
\* LastPauseEndTime not after it, and it does so exactly when it is the
\* first to see the child unpaused after a run that saw it Paused or
\* Pausing: not in a repeated reconciliation of the unpaused child, and
\* never before the child was seen pausing.
C35_EndOncePerEpisode ==
  [][PauseObserved =>
       /\ pauseCase'.last.endSet
            => /\ ~ObservedPausing
               /\ pauseCase.pauseStatus.LastPauseBeginTime # InitTime
               /\ ~After(pauseCase.pauseStatus.LastPauseEndTime,
                         pauseCase.pauseStatus.LastPauseBeginTime)
       /\ pauseCase'.last.endSet <=> (~ObservedPausing /\ pauseCase.prev = "paused")]_vars

\* a repeated reconciliation of the unpaused child has assigned
\* LastPauseEndTime again, the episode having begun and ended in one second
C35_Witness ==
  /\ pauseCase.stage = "pause" /\ pauseCase.last.ran
  /\ ~pausedOrPausing(pauseCase.phase)
  /\ ~pauseCase.last.first /\ pauseCase.last.endSet
  /\ After(pauseCase.pauseStatus.LastPauseEndTime, pauseCase.pauseStatus.LastPauseBeginTime)

(***************************************************************************)
(* The in-place update.                                                    *)
(***************************************************************************)
\* the child was updated, and not by the PPND step (the progressive step
\* promotes)
InPlaceUpdate(tr) == Issued(tr, {"UpdateChild"}) /\ ~Issued(tr, {"WithPPND"})

\* C36: a worker step that updates the child in place has neither found
\* nor set a strategy, and the owned child differed from the declared spec
\* with a difference of type Apply; a worker step on an owned child whose
\* difference is of type PPND or Progressive makes no in-place update,
\* whatever the default strategy and the pause registry.
C36_InPlaceOnlyApply ==
  [][/\ (WorkerStep /\ InPlaceUpdate(last'.tr))
          => /\ ~StrategyInProgressIn(last') /\ last'.read = UpgradeStrategyNoOp
             /\ LiveOwner /\ DiffersApartFromDesiredPhase /\ DiffIsApply
     /\ (WorkerStep /\ LiveOwner /\ (DiffIsPPND \/ DiffIsProgressive))
          => ~InPlaceUpdate(last'.tr)]_vars

\* with default strategy Progressive a change of the scale has been applied
\* in place
C36_Witness ==
  /\ last.ran /\ ~last.err /\ InPlaceUpdate(last.tr)
  /\ usdeConfig.defaultUpgradeStrategy = ProgressiveStrategyID
  /\ ~StrategyInProgressIn(last)
  /\ rollout.exists /\ rollout.status.phase = PhaseDeployed
  /\ pipeline.exists /\ pipeline.spec.scale = rollout.spec.scale

(***************************************************************************)
(* The way back to NoOp (SpecLive).                                        *)
(***************************************************************************)
\* C37: a strategy in progress is eventually no longer in progress (or the
\* rollout is gone).
C37_ReturnsToNoOp ==
  (rollout.exists /\ EffectiveStrategy \in Exclusive)
    ~> (~rollout.exists \/ EffectiveStrategy = UpgradeStrategyNoOp)

\* Progressive is in progress, the owned child equals the declared spec
\* again, and nothing of the controller or its surroundings has a step left
C37_Witness ==
  /\ Settled /\ quiet
  /\ LiveOwner /\ ~DiffersApartFromDesiredPhase
  /\ EffectiveStrategy = UpgradeStrategyProgressive
  /\ rollout.status.upgradeInProgress = UpgradeStrategyProgressive

(***************************************************************************)
(* The rate limiter's memory (SpecQueue).                                  *)
(***************************************************************************)
\* processQueueKey of k returns in this step
Processed(k) == pool'.ran[k] = pool.ran[k] + 1

\* C38: a reconciliation of a key that returns an error, the key's
\* previous reconciliation having returned no error and asked for no
\* requeue, is answered by a re-add with the limiter's initial delay.
C38_BackoffResetBySuccess ==
  [][\A k \in QueueKeys :
       (Processed(k) /\ pool.clean[k] /\ pool'.call.err)
         => pool'.call.delay = BaseDelay]_vars

\* a key failed, was reconciled without error, and failed again: the
\* second failure is answered with twice the initial delay
C38_Witness ==
  /\ pool.call.key = "ns/a" /\ pool.call.err /\ pool.call.clean
  /\ pool.call.call = "AddRateLimited" /\ pool.call.delay = 2 * BaseDelay
  /\ pool.failures["ns/a"] = 2 /\ ~pool.clean["ns/a"]
  /\ pool.failures["ns/b"] = 0

(***************************************************************************)
(* The controller's own writes and the queue (SpecLive).                   *)
(***************************************************************************)
\* C39: a worker step that leaves the child as it is and the rollout in the
\* store (whatever it wrote to the rollout's status and finalizers) does
\* not enqueue the key; and unless reconciliations keep failing, the queue
\* is eventually empty for good, with no delayed add pending.
C39_OwnWritesSettle ==
  /\ [][(WorkerStep /\ pipeline' = pipeline /\ rollout.exists /\ rollout'.exists)
          => ~queued']_vars
  /\ \/ <>[](~queued /\ ~delayed)
     \/ []<>(last.ran /\ (last.err \/ last.panic))

\* a reconciliation without error has written the finalizer and the status
\* of the rollout and nothing of the child, and the key is not in the queue
C39_Witness ==
  /\ last.ran /\ ~last.err /\ ~last.panic
  /\ Issued(last.tr, {"UpdateStatus"}) /\ Issued(last.tr, {"UpdateRollout"})
  /\ ~Issued(last.tr, {"CreateChild", "UpdateChild"})
  /\ rollout.exists /\ rollout.finalizer
  /\ EffectiveStrategy = UpgradeStrategyNoOp
  /\ ~queued /\ ~delayed

(***************************************************************************)
(* incrementChildCount (SpecCount): the rollout's nameCount in the store,  *)
(* in the informer's cache and in the object a reconciliation holds.       *)
(***************************************************************************)
MaxCalls == 4
MaxInt32 == 2147483647
MinInt32 == (-2147483647) - 1

\* Status.NameCount is a *int32
NilCount == [isNil |-> TRUE, v |-> 0]
CountOf(n) == [isNil |-> FALSE, v |-> n]

\* the rollout as the store has it before any call
StoredRollout == [nameCount |-> NilCount, rv |-> 1]

\* what a status write can come to: written and acknowledged, refused, or
\* written with the reply lost
Outcomes == {"ok", "error", "applied"}

NoCountRun == [ran |-> FALSE, err |-> FALSE, ret |-> 0, before |-> NilCount]

getCurrentChildCount(rolloutObject) ==
  IF rolloutObject.nameCount.isNil THEN [count |-> 0, found |-> FALSE]
  ELSE [count |-> rolloutObject.nameCount.v, found |-> TRUE]

\* r.client.Status().Update: refused when the object held is not the
\* store's latest version; a successful write hands back the new version
StatusUpdateNameCount(c, outcome) ==
  IF outcome = "error" \/ c.mem.rv # c.store.rv THEN [c |-> c, err |-> TRUE]
  ELSE IF outcome = "applied"
  THEN [c |-> [c EXCEPT !.store = [nameCount |-> c.mem.nameCount, rv |-> c.store.rv + 1]],
        err |-> TRUE]
  ELSE [c |-> [c EXCEPT !.store = [nameCount |-> c.mem.nameCount, rv |-> c.store.rv + 1],
                        !.mem.rv = c.store.rv + 1],
        err |-> FALSE]

updateCurrentChildCount(c, nameCount, outcome) ==
  StatusUpdateNameCount([c EXCEPT !.mem.nameCount = CountOf(nameCount)], outcome)

\* a plausible slip: the count read is written back
nextChildCountUnchanged(currentNameCount) == currentNameCount
\* currentNameCount+1 in int32
nextChildCount(currentNameCount) ==
  IF currentNameCount = MaxInt32 THEN MinInt32 ELSE currentNameCount + 1

incrementChildCountWrite(r, currentNameCount) ==
  IF r.err THEN [c |-> r.c, ret |-> 0, err |-> TRUE]
  ELSE [c |-> r.c, ret |-> currentNameCount, err |-> FALSE]

incrementChildCountFound(c, currentNameCount, outcome) ==
  incrementChildCountWrite(
    updateCurrentChildCount(c, nextChildCount(currentNameCount), outcome),
    currentNameCount)

incrementChildCountInit(r, outcome) ==
  IF r.err THEN [c |-> r.c, ret |-> 0, err |-> TRUE]
  ELSE incrementChildCountFound(r.c, 0, outcome)

incrementChildCount(c, first, second) ==
  IF ~getCurrentChildCount(c.mem).found
  THEN incrementChildCountInit(updateCurrentChildCount(c, 0, first), second)
  ELSE incrementChildCountFound(c, getCurrentChildCount(c.mem).count, second)

InitCount ==
  /\ IdleMain
  /\ mergeCase = Idle /\ diffCase = Idle /\ pool = Idle /\ isbCase = Idle
  /\ healthCase = Idle /\ pauseCase = Idle
  /\ countCase = [stage |-> "count", store |-> StoredRollout, cache |-> StoredRollout,
                  mem |-> StoredRollout, returned |-> {}, calls |-> 0,
                  failed |-> FALSE, last |-> NoCountRun]

\* the informer's cache catches up with the store
CountCacheSync ==
  /\ countCase.stage = "count" /\ countCase.cache # countCase.store
  /\ countCase' = [countCase EXCEPT !.cache = countCase.store, !.last = NoCountRun]
  /\ UNCHANGED <<mainVars, mergeCase, diffCase, pool, isbCase, healthCase, pauseCase>>

\* a reconciliation starts: r.client.Get reads the rollout from the cache
CountGet ==
  /\ countCase.stage = "count" /\ countCase.mem # countCase.cache
  /\ countCase' = [countCase EXCEPT !.mem = countCase.cache, !.last = NoCountRun]
  /\ UNCHANGED <<mainVars, mergeCase, diffCase, pool, isbCase, healthCase, pauseCase>>

\* one call of incrementChildCount on the object the reconciliation holds
IncrementChildCountCall ==
  /\ countCase.stage = "count" /\ countCase.calls < MaxCalls
  /\ \E first \in Outcomes, second \in Outcomes :
       countCase' =
         [countCase EXCEPT
            !.store = incrementChildCount(countCase, first, second).c.store,
            !.mem = incrementChildCount(countCase, first, second).c.mem,
            !.returned = IF incrementChildCount(countCase, first, second).err THEN @
                         ELSE @ \cup {incrementChildCount(countCase, first, second).ret},
            !.calls = @ + 1,
            !.failed = @ \/ incrementChildCount(countCase, first, second).err,
            !.last = [ran |-> TRUE,
                      err |-> incrementChildCount(countCase, first, second).err,
                      ret |-> incrementChildCount(countCase, first, second).ret,
                      before |-> countCase.mem.nameCount]]
  /\ UNCHANGED <<mainVars, mergeCase, diffCase, pool, isbCase, healthCase, pauseCase>>

NextCount == CountCacheSync \/ CountGet \/ IncrementChildCountCall
SpecCount == InitCount /\ [][NextCount]_vars

\* C40: a call of incrementChildCount that returns no error returns a value
\* no earlier call returned: 0 on a rollout without a nameCount, else the
\* nameCount of the rollout it was given; and it leaves the nameCount, of
\* the object and of the store, one above the value returned.  This holds
\* also after calls that failed on a status write.
C40_NeverTheSameValueTwice ==
  [][(countCase'.last.ran /\ ~countCase'.last.err)
       => /\ countCase'.last.ret \notin countCase.returned
          /\ countCase'.last.ret = (IF countCase.mem.nameCount.isNil THEN 0
                                    ELSE countCase.mem.nameCount.v)
          /\ countCase'.mem.nameCount = CountOf(countCase'.last.ret + 1)
          /\ countCase'.store.nameCount = CountOf(countCase'.last.ret + 1)]_vars

\* a call returned 0, a call failed on a status write, and a later call
\* has returned a value above 0
C40_Witness ==
  /\ countCase.stage = "count"
  /\ countCase.last.ran /\ ~countCase.last.err /\ countCase.failed
  /\ 0 \in countCase.returned /\ countCase.last.ret > 0
  /\ Cardinality(countCase.returned) >= 2

====
